---- MODULE Spec2Model ----
(***************************************************************************)
(* Account rotation engine (core/account_rotator.py), bulk action          *)
(* scheduler (scheduling/bulk_actions.py), escrow service                  *)
(* (marketplace/escrow.py) and credit system (billing/credit_manager.py)   *)
(* of the telegram-marketplace server, as a state machine.                 *)
(*                                                                         *)
(* Time is one clock, in milliseconds since midnight UTC of day 0; it      *)
(* stands for time.time() and datetime.now().  The scheduler's coroutines  *)
(* run on one asyncio event loop: the code between two awaits is one       *)
(* atomic step.                                                            *)
(***************************************************************************)
EXTENDS Integers, Sequences, FiniteSets, TLC

VARIABLES
    accounts,         \* AccountRotator.accounts: the pool, a list of account records
    scheduled_tasks,  \* BulkActionScheduler.scheduled_tasks: list of task records
    running_tasks,    \* BulkActionScheduler.running_tasks: ids of the tasks being driven
    ex,               \* the coroutines execute_scheduled_task(task_id), one per caller
    now,              \* the clock (ms)
    transactions,     \* EscrowService.transactions: the escrow records, by id
    user_credits      \* CreditSystem.user_credits: credit balance by user id

vars == <<accounts, scheduled_tasks, running_tasks, ex, now, transactions, user_credits>>

----------------------------------------------------------------------------
(* Bounds of the model *)

MaxAccounts == 2      \* accounts registered in the pool
MaxTasks == 2         \* tasks recorded by the scheduler
MaxProcs == 2         \* concurrent execute_scheduled_task calls
MaxUsers == 8         \* length of a user list
MaxSources == 2       \* length of a source list
MaxPlanned == 6       \* length of a source list that is planned and not executed
MaxWork == 2          \* work items of all tasks together, when tasks run concurrently
MaxBudget == 5        \* accounts_per_hour of schedule_add_members
MaxReports == 1       \* ban / rate-limit reports per account
MaxOutcomes == 2      \* outcome reports per account
MaxRateLimits == 11   \* rate-limit reports on the account whose score is studied
MaxBans == 6          \* ban reports on the account whose score is studied
MaxHours == 2         \* hours the clock may advance past its start
StartHour == 8        \* hour of day (UTC) at which the clock starts
MaxTransactions == 2  \* escrow transactions created
MaxAmount == 2        \* amount of an escrow transaction
MaxGrant == 10        \* credits added by one add_credits call
MaxBalance == 30      \* balance up to which credits are added

(* Units *)
SecondMs == 1000
MinuteMs == 60 * SecondMs
HourMs == 60 * MinuteMs

None == "None"
NoTime == -1          \* a timestamp that is None / not set

Phones == {"p1", "p2"}
TimeZones == {"UTC", "Asia/Tokyo", "Invalid/Zone"}

Min(a, b) == IF a <= b THEN a ELSE b
Max(a, b) == IF a >= b THEN a ELSE b

RECURSIVE SumSeq(_)
SumSeq(s) == IF s = <<>> THEN 0 ELSE Head(s) + SumSeq(Tail(s))

----------------------------------------------------------------------------
(* AccountRotator *)

\* add_account with the rate of an account without history set to 0.0
add_account_zero_rate(accs, phone) ==
    Append(accs, [phone |-> phone, status |-> "LIVE",
                  success_rate |-> <<0, 1>>,
                  last_used |-> NoTime,
                  total_actions |-> 0, successful_actions |-> 0,
                  banned_count |-> 0, rate_limit_count |-> 0])

\* add_account: the record appended to the pool (duplicates are not rejected)
add_account(accs, phone) ==
    Append(accs, [phone |-> phone, status |-> "LIVE",
                  success_rate |-> <<1, 1>>,       \* 1.0, as successful/total
                  last_used |-> NoTime,
                  total_actions |-> 0, successful_actions |-> 0,
                  banned_count |-> 0, rate_limit_count |-> 0])

\* the first account of the pool with this phone (the loops break at the first match)
FirstWithPhone(accs, phone) ==
    IF \E i \in DOMAIN accs : accs[i].phone = phone
    THEN CHOOSE i \in DOMAIN accs :
            /\ accs[i].phone = phone
            /\ \A j \in DOMAIN accs : accs[j].phone = phone => i <= j
    ELSE 0

\* the 30-minute test made before the one-hour test
get_cooldown_penalty_tiered(acc, t) ==
    IF acc.last_used = NoTime THEN 10
    ELSE IF t - acc.last_used < 1800 * SecondMs THEN 3
    ELSE IF t - acc.last_used < 3600 * SecondMs THEN 5
    ELSE 10

\* _get_cooldown_penalty, times 10: 1.0, 0.5 or 0.3
get_cooldown_penalty(acc, t) ==
    IF acc.last_used = NoTime THEN 10
    ELSE IF t - acc.last_used < 3600 * SecondMs THEN 5
    ELSE IF t - acc.last_used < 1800 * SecondMs THEN 3
    ELSE 10

\* _calculate_account_score as the exact fraction ScoreNum / ScoreDen:
\*   (success_rate*0.7 + min(30/365, 1)*0.2 + 0.8*0.1) * cooldown * rate_limit * ban
\* with success_rate = s/d:  (25550*s + 3520*d) / (36500*d)  times the penalties
\* (cooldown in tenths, rate limit in tenths, ban in fifths).
\* the score with the penalties 1 - n*0.1 and 1 - n*0.2 not clamped at 0
ScoreNum_unclamped(acc, t) ==
    (25550 * acc.success_rate[1] + 3520 * acc.success_rate[2])
      * get_cooldown_penalty(acc, t)
      * (10 - acc.rate_limit_count)
      * (5 - acc.banned_count)

ScoreNum(acc, t) ==
    (25550 * acc.success_rate[1] + 3520 * acc.success_rate[2])
      * get_cooldown_penalty(acc, t)
      * Max(0, 10 - acc.rate_limit_count)
      * Max(0, 5 - acc.banned_count)
ScoreDen(acc) == acc.success_rate[2]

\* score(x) > score(y), score(x) = score(y)
ScoreGreater(x, y, t) == ScoreNum(x, t) * ScoreDen(y) > ScoreNum(y, t) * ScoreDen(x)
ScoreEqual(x, y, t) == ScoreNum(x, t) * ScoreDen(y) = ScoreNum(y, t) * ScoreDen(x)

LiveAccounts(accs) == {i \in DOMAIN accs : accs[i].status = "LIVE"}

\* get_best_account with every account a candidate (no LIVE filter)
get_best_account_nofilter(accs, t) ==
    IF accs = <<>> THEN 0
    ELSE CHOOSE i \in DOMAIN accs :
            \A j \in DOMAIN accs :
                /\ ~ScoreGreater(accs[j], accs[i], t)
                /\ (ScoreEqual(accs[j], accs[i], t) => i <= j)

\* get_best_account: index in the pool of the account returned, 0 for None.
\* The LIVE accounts are sorted by score, highest first; the sort is stable, so
\* of several accounts with the highest score the first of the pool is returned.
get_best_account(accs, t) ==
    IF LiveAccounts(accs) = {} THEN 0
    ELSE CHOOSE i \in LiveAccounts(accs) :
            \A j \in LiveAccounts(accs) :
                /\ ~ScoreGreater(accs[j], accs[i], t)
                /\ (ScoreEqual(accs[j], accs[i], t) => i <= j)

\* mark_account_used with the rate recomputed before successful_actions is updated
mark_account_used_rate_first(accs, phone, success, t) ==
    LET i == FirstWithPhone(accs, phone) IN
    IF i = 0 THEN accs
    ELSE LET total == accs[i].total_actions + 1
             succ == accs[i].successful_actions + (IF success THEN 1 ELSE 0)
         IN [accs EXCEPT ![i].last_used = t,
                         ![i].total_actions = total,
                         ![i].successful_actions = succ,
                         ![i].success_rate = <<accs[i].successful_actions, total>>]

mark_account_used(accs, phone, success, t) ==
    LET i == FirstWithPhone(accs, phone) IN
    IF i = 0 THEN accs
    ELSE LET total == accs[i].total_actions + 1
             succ == accs[i].successful_actions + (IF success THEN 1 ELSE 0)
         IN [accs EXCEPT ![i].last_used = t,
                         ![i].total_actions = total,
                         ![i].successful_actions = succ,
                         ![i].success_rate = <<succ, total>>]

\* mark_account_banned that counts the ban and leaves the status
mark_account_banned_count_only(accs, phone) ==
    LET i == FirstWithPhone(accs, phone) IN
    IF i = 0 THEN accs
    ELSE [accs EXCEPT ![i].banned_count = accs[i].banned_count + 1]

mark_account_banned(accs, phone) ==
    LET i == FirstWithPhone(accs, phone) IN
    IF i = 0 THEN accs
    ELSE [accs EXCEPT ![i].status = "BANNED",
                      ![i].banned_count = accs[i].banned_count + 1]

\* mark_account_rate_limited that also takes the account out of selection
mark_account_rate_limited_flood_wait(accs, phone) ==
    LET i == FirstWithPhone(accs, phone) IN
    IF i = 0 THEN accs
    ELSE [accs EXCEPT ![i].rate_limit_count = accs[i].rate_limit_count + 1,
                      ![i].status = "FLOOD_WAIT"]

mark_account_rate_limited(accs, phone) ==
    LET i == FirstWithPhone(accs, phone) IN
    IF i = 0 THEN accs
    ELSE [accs EXCEPT ![i].rate_limit_count = accs[i].rate_limit_count + 1]

\* get_accounts_by_status: the accounts with this status, in pool order
get_accounts_by_status(accs, status) == SelectSeq(accs, LAMBDA acc : acc.status = status)

\* get_account_stats()['live_accounts']
live_accounts(accs) == Cardinality(LiveAccounts(accs))

----------------------------------------------------------------------------
(* Double-precision arithmetic of the planner, in integers.                *)
(* hours_needed = account_users / actions_per_hour is a double q = fl(u/a), *)
(* each slot subtracts min(1.0, remaining), which is exact, so the value    *)
(* remaining before slot k (k = 0, 1, ...) is q - k, and the slot's clamp   *)
(* is int((q - k) * a): u - k*a, or one less when q was rounded down far    *)
(* enough for the product to round below the integer.                      *)

RECURSIVE Pow2(_)
Pow2(n) == IF n <= 0 THEN 1 ELSE 2 * Pow2(n - 1)

\* 2^e mod m
RECURSIVE Pow2Mod(_, _)
Pow2Mod(e, m) == IF e <= 0 THEN 1 % m ELSE (2 * Pow2Mod(e - 1, m)) % m

\* floor(log2(n / d)) for n, d >= 1
RECURSIVE FloorLog2(_, _)
FloorLog2(n, d) ==
    IF n >= 2 * d THEN 1 + FloorLog2(n, 2 * d)
    ELSE IF n < d THEN FloorLog2(2 * n, d) - 1
    ELSE 0

IsPow2(n) == \E e \in 0..30 : n = Pow2(e)

\* The rounding error of q = fl(u/a), as the integer (a*q - u) * 2^s with
\* s = 52 - floor(log2(u/a)) (q is a multiple of 2^-s): round to nearest, ties
\* to the even quotient.
DivError(u, a) ==
    LET s == 52 - FloorLog2(u, a)
        R == ((u % a) * Pow2Mod(s, a)) % a                    \* u * 2^s mod a
        R2 == ((u % (2 * a)) * Pow2Mod(s, 2 * a)) % (2 * a)   \* u * 2^s mod 2a
        quotientOdd == ((R2 - R) \div a) % 2 = 1
    IN  IF R = 0 THEN 0
        ELSE IF 2 * R < a THEN 0 - R
        ELSE IF 2 * R > a THEN a - R
        ELSE IF quotientOdd THEN a - R ELSE 0 - R

\* int((fl(u/a) - k) * a) for 0 <= k < u/a
TruncRemaining(u, a, k) ==
    LET N == u - k * a
        e == DivError(u, a)
        \* fl rounds the product N + e/2^s up to N iff |e| <= 2^t
        t == FloorLog2(Max(N, 1), 1) - FloorLog2(u, a) - (IF IsPow2(N) THEN 2 ELSE 1)
        roundsToN == IF t >= 0 THEN 0 - e <= Pow2(t) ELSE (0 - e) * Pow2(0 - t) <= 1
    IN  IF e >= 0 \/ roundsToN THEN N ELSE N - 1

\* int(x * 1.2), int(x * 0.8) for a non-negative integer x
Times12(x) == (x * 12) \div 10
Times08(x) == (x * 8) \div 10

----------------------------------------------------------------------------
(* Distribution planner *)

\* _get_peak_hours: the table, with the UTC row for an unknown zone
get_peak_hours(timezone) ==
    CASE timezone = "America/New_York" -> {9, 10, 11, 13, 14, 15, 18, 19, 20}
      [] timezone = "Europe/London" -> {8, 9, 10, 12, 13, 14, 17, 18, 19}
      [] timezone = "Asia/Tokyo" -> {7, 8, 9, 11, 12, 13, 16, 17, 18}
      [] timezone = "Australia/Sydney" -> {7, 8, 9, 11, 12, 13, 16, 17, 18}
      [] OTHER -> {9, 10, 11, 14, 15, 16, 19, 20}

\* pytz.timezone(timezone): the zones of the model that exist
ValidTimeZone(timezone) == timezone \in {"UTC", "Asia/Tokyo"}

\* hours the zone is ahead of UTC (neither zone has daylight saving time)
UtcOffsetHours(timezone) == IF timezone = "Asia/Tokyo" THEN 9 ELSE 0

\* datetime.hour of the time t in the zone
LocalHour(t, timezone) == ((t \div HourMs) + UtcOffsetHours(timezone)) % 24

\* number of passes of the loop "while remaining_hours > 0": ceil(u / a)
SlotCount(u, a) == (u + a - 1) \div a

\* _generate_time_slots(start_time, hours_needed = u / a, actions_per_hour = a,
\* peak_hours of the zone).  duration_hours is a fraction <<numerator, denominator>>
\* of an hour: min(1.0, remaining) = min(a, u - k*a) / a up to the rounding of u/a.
generate_time_slots(start_time, u, a, timezone) ==
    [k \in 1..SlotCount(u, a) |->
        LET hour == LocalHour(start_time + (k - 1) * HourMs, timezone)
            peak == hour \in get_peak_hours(timezone)
            slot_actions == IF peak THEN Times12(a) ELSE Times08(a)
        IN [start_time |-> start_time + (k - 1) * HourMs,
            duration_hours |-> <<Min(a, u - (k - 1) * a), a>>,
            target_actions |-> Min(slot_actions, TruncRemaining(u, a, k - 1)),
            is_peak_time |-> peak]]

\* _calculate_distribution guarded against an empty pool only by a default of
\* no allocations (no division by accounts_count when it is 0)
distribution_error_empty_plan(total_users, accounts_count, accounts_per_hour, timezone) ==
    IF ~ValidTimeZone(timezone) THEN "UnknownTimeZoneError"
    ELSE IF accounts_count # 0 /\ accounts_per_hour \div accounts_count = 0
    THEN "ZeroDivisionError"
    ELSE None

\* what _calculate_distribution raises, None when it returns a plan
distribution_error(total_users, accounts_count, accounts_per_hour, timezone) ==
    IF ~ValidTimeZone(timezone) THEN "UnknownTimeZoneError"
    ELSE IF accounts_count = 0 THEN "ZeroDivisionError"            \* line 86
    ELSE IF accounts_per_hour \div accounts_count = 0 THEN "ZeroDivisionError"  \* line 98
    ELSE None

\* _calculate_distribution without the extra user of line 95
calculate_distribution_no_extra(total_users, accounts_count, accounts_per_hour, timezone, t) ==
    LET users_per_account == total_users \div accounts_count
        actions_per_hour_per_account == accounts_per_hour \div accounts_count
    IN [i \in 1..accounts_count |->
          LET account_users == users_per_account
              start_time == t + (i - 1) * 10 * MinuteMs
          IN [account_index |-> i - 1,
              users_count |-> account_users,
              start_time |-> start_time,
              hours_needed |-> <<account_users, actions_per_hour_per_account>>,
              actions_per_hour |-> actions_per_hour_per_account,
              time_slots |-> generate_time_slots(start_time, account_users,
                                 actions_per_hour_per_account, timezone)]]

\* _calculate_distribution with the whole hourly budget given to every account
calculate_distribution_full_rate(total_users, accounts_count, accounts_per_hour, timezone, t) ==
    LET users_per_account == total_users \div accounts_count
        remaining_users == total_users % accounts_count
        actions_per_hour_per_account == accounts_per_hour
    IN [i \in 1..accounts_count |->
          LET account_users == users_per_account + (IF i - 1 < remaining_users THEN 1 ELSE 0)
              start_time == t + (i - 1) * 10 * MinuteMs
          IN [account_index |-> i - 1,
              users_count |-> account_users,
              start_time |-> start_time,
              hours_needed |-> <<account_users, actions_per_hour_per_account>>,
              actions_per_hour |-> actions_per_hour_per_account,
              time_slots |-> generate_time_slots(start_time, account_users,
                                 actions_per_hour_per_account, timezone)]]

\* _calculate_distribution, when it raises nothing; t is datetime.now(tz)
calculate_distribution(total_users, accounts_count, accounts_per_hour, timezone, t) ==
    LET users_per_account == total_users \div accounts_count
        remaining_users == total_users % accounts_count
        actions_per_hour_per_account == accounts_per_hour \div accounts_count
    IN [i \in 1..accounts_count |->
          LET account_users == users_per_account + (IF i - 1 < remaining_users THEN 1 ELSE 0)
              start_time == t + (i - 1) * 10 * MinuteMs
          IN [account_index |-> i - 1,
              users_count |-> account_users,
              start_time |-> start_time,
              hours_needed |-> <<account_users, actions_per_hour_per_account>>,
              actions_per_hour |-> actions_per_hour_per_account,
              time_slots |-> generate_time_slots(start_time, account_users,
                                 actions_per_hour_per_account, timezone)]]

\* sources[i : i + n] of a 1-based sequence, i counted from 0
Slice(seq, i, n) == SubSeq(seq, i + 1, Min(Len(seq), i + n))

\* what _calculate_scrape_distribution raises, None when it returns a plan
scrape_distribution_error(sources, accounts_per_hour, timezone) ==
    IF ~ValidTimeZone(timezone) THEN "UnknownTimeZoneError"
    ELSE IF accounts_per_hour = 0 THEN "ZeroDivisionError"         \* line 127
    ELSE None

\* _calculate_scrape_distribution with batches of one source whatever the budget
calculate_scrape_distribution_singles(sources, accounts_per_hour, timezone, t) ==
    [b \in 1..Len(sources) |->
          [batch_index |-> b - 1,
           sources |-> Slice(sources, b - 1, 1),
           start_time |-> t + (b - 1) * MinuteMs,
           estimated_duration |-> 2]]

\* _calculate_scrape_distribution: batch b (from 0) holds the sources from
\* i = b * sources_per_batch on and starts i minutes after t
calculate_scrape_distribution(sources, accounts_per_hour, timezone, t) ==
    LET sources_per_batch == Max(1, Len(sources) \div accounts_per_hour)
        batches == (Len(sources) + sources_per_batch - 1) \div sources_per_batch
    IN [b \in 1..batches |->
          LET i == (b - 1) * sources_per_batch
              batch_sources == Slice(sources, i, sources_per_batch)
          IN [batch_index |-> i \div sources_per_batch,
              sources |-> batch_sources,
              start_time |-> t + i * MinuteMs,
              estimated_duration |-> Len(batch_sources) * 2]]

----------------------------------------------------------------------------
(* BulkActionScheduler: the task registry *)

Procs == 1..MaxProcs

\* f"add_members_{now:%Y%m%d_%H%M%S}": the kind and the clock's second
task_id(prefix, t) == <<prefix, t \div SecondMs>>

\* _get_task: index in scheduled_tasks of the first task with this id, 0 for None
get_task(tasks, id) ==
    IF \E i \in DOMAIN tasks : tasks[i].id = id
    THEN CHOOSE i \in DOMAIN tasks :
            /\ tasks[i].id = id
            /\ \A j \in DOMAIN tasks : tasks[j].id = id => i <= j
    ELSE 0

\* the task record built by schedule_add_members / schedule_bulk_scrape;
\* items is the list 'users' or 'sources', started_at and completed_at are
\* keys the record gets later, error is task.get('error')
new_task(id, type, items, distribution, timezone, t) ==
    [id |-> id, type |-> type, items |-> items, distribution |-> distribution,
     timezone |-> timezone, created_at |-> t, status |-> "SCHEDULED",
     progress |-> 0, total_actions |-> Len(items),
     started_at |-> NoTime, completed_at |-> NoTime, error |-> None]

\* get_task_status: the snapshot, not_found, or the ZeroDivisionError of
\* progress / total_actions
get_task_status(tasks, id) ==
    LET i == get_task(tasks, id) IN
    IF i = 0 THEN [status |-> "not_found"]
    ELSE IF tasks[i].total_actions = 0 THEN [raised |-> "ZeroDivisionError"]
    ELSE [id |-> tasks[i].id, type |-> tasks[i].type, status |-> tasks[i].status,
          progress |-> tasks[i].progress, total_actions |-> tasks[i].total_actions,
          progress_percentage |-> <<tasks[i].progress * 100, tasks[i].total_actions>>,
          created_at |-> tasks[i].created_at, error |-> tasks[i].error]

\* list_tasks: one get_task_status(task['id']) per task that passes the filter
list_tasks(tasks, status_filter) ==
    LET kept == SelectSeq(tasks, LAMBDA task :
                    status_filter = None \/ task.status = status_filter)
        snaps == [i \in DOMAIN kept |-> get_task_status(tasks, kept[i].id)]
    IN IF \E i \in DOMAIN snaps : "raised" \in DOMAIN snaps[i]
       THEN [raised |-> "ZeroDivisionError"]
       ELSE [value |-> snaps]

----------------------------------------------------------------------------
(* BulkActionScheduler: the executor.  A coroutine is suspended at an await;  *)
(* pc names it: slot_wait (line 240), add_call (248), add_pace (253),      *)
(* batch_wait (269), scrape_call (277), scrape_pace (281).  calls and        *)
(* ok_calls count the single-action calls that ended and those that        *)
(* returned; passed lists the action_num of each users[action_num] that    *)
(* line 248 handed to _add_single_member, in the order of the calls.       *)

Suspended == {"slot_wait", "add_call", "add_pace", "batch_wait", "scrape_call", "scrape_pace"}

\* the task_id of a coroutine that has not been called yet (an id is a pair)
NoId == <<None, 0>>
IdleProc == [pc |-> "idle", id |-> NoId, task |-> 0, a |-> 0, s |-> 0, n |-> 0,
             account |-> 0, wake |-> NoTime, calls |-> 0, ok_calls |-> 0,
             passed |-> <<>>]

Pos(pc, a, s, n, account, wake) ==
    [pc |-> pc, a |-> a, s |-> s, n |-> n, account |-> account, wake |-> wake]

\* _execute_add_members_task from a point of its loops to its next await, or to
\* its end (pc "finish").  at: "alloc" = top of "for account_dist", "slot" = top
\* of "for time_slot", "action" = top of "for action_num".  a, s count from 1,
\* action_num n from 0.
RECURSIVE add_members_next(_, _, _, _, _, _, _, _)
add_members_next(task, accs, t, at, a, s, n, account) ==
    IF at = "alloc" THEN
        IF a > Len(task.distribution) THEN Pos("finish", a, 0, 0, account, NoTime)
        ELSE LET best == get_best_account(accs, t) IN
             IF best = 0
             THEN add_members_next(task, accs, t, "alloc", a + 1, 0, 0, best)
             ELSE add_members_next(task, accs, t, "slot", a, 1, 0, best)
    ELSE IF at = "slot" THEN
        IF s > Len(task.distribution[a].time_slots)
        THEN add_members_next(task, accs, t, "alloc", a + 1, 0, 0, account)
        ELSE IF task.distribution[a].time_slots[s].start_time > t
        THEN Pos("slot_wait", a, s, 0, account,
                 task.distribution[a].time_slots[s].start_time)
        ELSE add_members_next(task, accs, t, "action", a, s, 0, account)
    ELSE
        IF n >= task.distribution[a].time_slots[s].target_actions
        THEN add_members_next(task, accs, t, "slot", a, s + 1, 0, account)
        ELSE IF n >= Len(task.items)       \* users[action_num]: IndexError, caught
        THEN add_members_next(task, accs, t, "action", a, s, n + 1, account)
        ELSE Pos("add_call", a, s, n, account, t + 500)

\* _execute_bulk_scrape_task from a point of its loops to its next await or its
\* end.  at: "batch" = top of "for batch", "source" = top of "for source".
\* b and n (the source's place in the batch) count from 1.
RECURSIVE bulk_scrape_next(_, _, _, _, _, _)
bulk_scrape_next(task, accs, t, at, b, n) ==
    IF at = "batch" THEN
        IF b > Len(task.distribution) THEN Pos("finish", b, 0, 0, 0, NoTime)
        ELSE IF task.distribution[b].start_time > t
        THEN Pos("batch_wait", b, 0, 0, 0, task.distribution[b].start_time)
        ELSE bulk_scrape_next(task, accs, t, "source", b, 1)
    ELSE
        IF n > Len(task.distribution[b].sources)
        THEN bulk_scrape_next(task, accs, t, "batch", b + 1, 0)
        ELSE LET best == get_best_account(accs, t) IN
             IF best = 0
             THEN bulk_scrape_next(task, accs, t, "source", b, n + 1)
             ELSE Pos("scrape_call", b, 0, n, best, t + 1000)

\* the coroutine p, with the record proc, moves to pos; at the end of the plan
\* the task is COMPLETED and leaves running_tasks (lines 209-210, 218)
Settle(p, proc, tasks, running, pos) ==
    LET moved == [proc EXCEPT !.a = pos.a, !.s = pos.s, !.n = pos.n,
                              !.account = pos.account, !.wake = pos.wake]
    IN
    IF pos.pc = "finish"
    THEN /\ scheduled_tasks' = [tasks EXCEPT ![proc.task].status = "COMPLETED",
                                             ![proc.task].completed_at = now]
         /\ running_tasks' = running \ {proc.id}
         /\ ex' = [ex EXCEPT ![p] = [moved EXCEPT !.pc = "returned"]]
    ELSE /\ scheduled_tasks' = tasks
         /\ running_tasks' = running
         /\ ex' = [ex EXCEPT ![p] = [moved EXCEPT !.pc = pos.pc]]

\* the ids a caller may pass to execute and status: those recorded, and one that is not
UnknownId == <<"add_members", 0>>
KnownIds == {scheduled_tasks[i].id : i \in DOMAIN scheduled_tasks}

----------------------------------------------------------------------------
(* Actions: the public operations of the rotator *)

Register(phone) ==
    /\ accounts' = add_account(accounts, phone)
    /\ UNCHANGED <<scheduled_tasks, running_tasks, ex, now, transactions, user_credits>>

ReportOutcome(phone, success) ==
    /\ accounts' = mark_account_used(accounts, phone, success, now)
    /\ UNCHANGED <<scheduled_tasks, running_tasks, ex, now, transactions, user_credits>>

ReportBanned(phone) ==
    /\ accounts' = mark_account_banned(accounts, phone)
    /\ UNCHANGED <<scheduled_tasks, running_tasks, ex, now, transactions, user_credits>>

ReportRateLimited(phone) ==
    /\ accounts' = mark_account_rate_limited(accounts, phone)
    /\ UNCHANGED <<scheduled_tasks, running_tasks, ex, now, transactions, user_credits>>

\* get_best_account() by a caller of the rotator: it returns
\* get_best_account(accounts, now) and writes nothing
SelectBest ==
    /\ UNCHANGED <<accounts, scheduled_tasks, running_tasks, ex, now, transactions, user_credits>>

----------------------------------------------------------------------------
(* Actions: the public operations of the scheduler *)

\* schedule_add_members(group, users, accounts_per_hour, timezone), len(users) = n
ScheduleAddMembers(n, accounts_per_hour, timezone) ==
    LET users == [i \in 1..n |-> i]
        accounts_needed == Min(n, live_accounts(accounts))
        err == distribution_error(n, accounts_needed, accounts_per_hour, timezone)
        id == task_id("add_members", now)
    IN
    /\ IF err # None                     \* raised to the caller before line 43
       THEN UNCHANGED scheduled_tasks
       ELSE scheduled_tasks' = Append(scheduled_tasks,
                    new_task(id, "ADD_MEMBERS", users,
                        calculate_distribution(n, accounts_needed, accounts_per_hour,
                                               timezone, now),
                        timezone, now))
    /\ UNCHANGED <<accounts, running_tasks, ex, now, transactions, user_credits>>

\* schedule_bulk_scrape(sources, accounts_per_hour, timezone), len(sources) = n
ScheduleBulkScrape(n, accounts_per_hour, timezone) ==
    LET sources == [i \in 1..n |-> i]
        err == scrape_distribution_error(sources, accounts_per_hour, timezone)
        id == task_id("bulk_scrape", now)
    IN
    /\ IF err # None                     \* raised to the caller before line 70
       THEN UNCHANGED scheduled_tasks
       ELSE scheduled_tasks' = Append(scheduled_tasks,
                    new_task(id, "BULK_SCRAPE", sources,
                        calculate_scrape_distribution(sources, accounts_per_hour,
                                                      timezone, now),
                        timezone, now))
    /\ UNCHANGED <<accounts, running_tasks, ex, now, transactions, user_credits>>

\* get_task_status(task_id): it returns get_task_status(scheduled_tasks, id)
\* and writes nothing
Status(id) ==
    /\ UNCHANGED <<accounts, scheduled_tasks, running_tasks, ex, now, transactions, user_credits>>

\* list_tasks filtering self.scheduled_tasks itself instead of the copy of line 322
List_in_place(status_filter) ==
    /\ scheduled_tasks' = SelectSeq(scheduled_tasks, LAMBDA task :
                              status_filter = None \/ task.status = status_filter)
    /\ UNCHANGED <<accounts, running_tasks, ex, now, transactions, user_credits>>

\* list_tasks(status_filter): it returns list_tasks(scheduled_tasks, status_filter)
\* and writes nothing
List(status_filter) ==
    /\ UNCHANGED <<accounts, scheduled_tasks, running_tasks, ex, now, transactions, user_credits>>

\* execute_scheduled_task without the test of line 195
Execute_nocheck(p, id) ==
    LET ti == get_task(scheduled_tasks, id) IN
    /\ ex[p].pc = "idle"
    /\ UNCHANGED <<accounts, now, transactions, user_credits>>
    /\ IF ti = 0
       THEN /\ ex' = [ex EXCEPT ![p].pc = "returned", ![p].id = id]
            /\ UNCHANGED <<scheduled_tasks, running_tasks>>
       ELSE LET tasks == [scheduled_tasks EXCEPT ![ti].status = "RUNNING",
                                                 ![ti].started_at = now]
                proc == [ex[p] EXCEPT !.id = id, !.task = ti]
                pos == IF tasks[ti].type = "ADD_MEMBERS"
                       THEN add_members_next(tasks[ti], accounts, now, "alloc", 1, 0, 0, 0)
                       ELSE bulk_scrape_next(tasks[ti], accounts, now, "batch", 1, 0)
            IN Settle(p, proc, tasks, running_tasks \cup {id}, pos)

\* execute_scheduled_task failing the task when the pool has no LIVE account
Execute_no_capacity(p, id) ==
    LET ti == get_task(scheduled_tasks, id) IN
    /\ ex[p].pc = "idle"
    /\ UNCHANGED <<accounts, now, transactions, user_credits>>
    /\ IF ti = 0 \/ scheduled_tasks[ti].status # "SCHEDULED"
       THEN /\ ex' = [ex EXCEPT ![p].pc = "returned", ![p].id = id]
            /\ UNCHANGED <<scheduled_tasks, running_tasks>>
       ELSE IF LiveAccounts(accounts) = {}
       THEN /\ scheduled_tasks' = [scheduled_tasks EXCEPT ![ti].status = "FAILED",
                                                         ![ti].started_at = now,
                                                         ![ti].error = "NoCapacity"]
            /\ ex' = [ex EXCEPT ![p].pc = "returned", ![p].id = id, ![p].task = ti]
            /\ UNCHANGED running_tasks
       ELSE LET tasks == [scheduled_tasks EXCEPT ![ti].status = "RUNNING",
                                                 ![ti].started_at = now]
                proc == [ex[p] EXCEPT !.id = id, !.task = ti]
                pos == IF tasks[ti].type = "ADD_MEMBERS"
                       THEN add_members_next(tasks[ti], accounts, now, "alloc", 1, 0, 0, 0)
                       ELSE bulk_scrape_next(tasks[ti], accounts, now, "batch", 1, 0)
            IN Settle(p, proc, tasks, running_tasks \cup {id}, pos)

\* execute_scheduled_task(id), called in the coroutine p, up to its first await
Execute(p, id) ==
    LET ti == get_task(scheduled_tasks, id) IN
    /\ ex[p].pc = "idle"
    /\ UNCHANGED <<accounts, now, transactions, user_credits>>
    /\ IF ti = 0 \/ scheduled_tasks[ti].status # "SCHEDULED"
       THEN /\ ex' = [ex EXCEPT ![p].pc = "returned", ![p].id = id]
            /\ UNCHANGED <<scheduled_tasks, running_tasks>>
       ELSE LET tasks == [scheduled_tasks EXCEPT ![ti].status = "RUNNING",
                                                 ![ti].started_at = now]
                proc == [ex[p] EXCEPT !.id = id, !.task = ti]
                pos == IF tasks[ti].type = "ADD_MEMBERS"
                       THEN add_members_next(tasks[ti], accounts, now, "alloc", 1, 0, 0, 0)
                       ELSE bulk_scrape_next(tasks[ti], accounts, now, "batch", 1, 0)
            IN Settle(p, proc, tasks, running_tasks \cup {id}, pos)

----------------------------------------------------------------------------
(* Actions: the steps of a running coroutine *)

Task(p) == scheduled_tasks[ex[p].task]

\* the slot's actions start while the sleep of line 240 is not over
SlotWake_early(p) ==
    /\ ex[p].pc = "slot_wait"
    /\ Settle(p, ex[p], scheduled_tasks, running_tasks,
              add_members_next(Task(p), accounts, now, "action", ex[p].a, ex[p].s, 0,
                               ex[p].account))
    /\ UNCHANGED <<accounts, now, transactions, user_credits>>

\* asyncio.sleep of line 240 is over: the slot's actions start
SlotWake(p) ==
    /\ ex[p].pc = "slot_wait"
    /\ now >= ex[p].wake
    /\ Settle(p, ex[p], scheduled_tasks, running_tasks,
              add_members_next(Task(p), accounts, now, "action", ex[p].a, ex[p].s, 0,
                               ex[p].account))
    /\ UNCHANGED <<accounts, now, transactions, user_credits>>

\* _add_single_member returned: progress += 1, then the pacing sleep of line 253
AddReturn(p) ==
    /\ ex[p].pc = "add_call"
    /\ now >= ex[p].wake
    /\ scheduled_tasks' = [scheduled_tasks EXCEPT
                               ![ex[p].task].progress = Task(p).progress + 1]
    /\ ex' = [ex EXCEPT ![p].pc = "add_pace",
                        ![p].calls = ex[p].calls + 1,
                        ![p].ok_calls = ex[p].ok_calls + 1,
                        ![p].passed = Append(ex[p].passed, ex[p].n),
                        ![p].wake = now + HourMs \div
                            Task(p).distribution[ex[p].a].time_slots[ex[p].s].target_actions]
    /\ UNCHANGED <<accounts, running_tasks, now, transactions, user_credits>>

\* the failed call counted as progress (line 250 moved out of the try)
AddRaise_counted(p) ==
    /\ ex[p].pc = "add_call"
    /\ now >= ex[p].wake
    /\ Settle(p, [ex[p] EXCEPT !.calls = ex[p].calls + 1,
                               !.passed = Append(ex[p].passed, ex[p].n)],
              [scheduled_tasks EXCEPT ![ex[p].task].progress = Task(p).progress + 1],
              running_tasks,
              add_members_next(Task(p), accounts, now, "action", ex[p].a, ex[p].s,
                               ex[p].n + 1, ex[p].account))
    /\ UNCHANGED <<accounts, now, transactions, user_credits>>

\* the exception of the call not caught per unit: it reaches line 212
AddRaise_aborts(p) ==
    /\ ex[p].pc = "add_call"
    /\ now >= ex[p].wake
    /\ scheduled_tasks' = [scheduled_tasks EXCEPT ![ex[p].task].status = "FAILED",
                                                  ![ex[p].task].error = "ActionFailed"]
    /\ running_tasks' = running_tasks \ {ex[p].id}
    /\ ex' = [ex EXCEPT ![p].pc = "returned", ![p].calls = ex[p].calls + 1,
                        ![p].passed = Append(ex[p].passed, ex[p].n),
                        ![p].wake = NoTime]
    /\ UNCHANGED <<accounts, now, transactions, user_credits>>

\* _add_single_member raised: caught at line 255, next action_num without a sleep
AddRaise(p) ==
    /\ ex[p].pc = "add_call"
    /\ now >= ex[p].wake
    /\ Settle(p, [ex[p] EXCEPT !.calls = ex[p].calls + 1,
                               !.passed = Append(ex[p].passed, ex[p].n)],
              scheduled_tasks, running_tasks,
              add_members_next(Task(p), accounts, now, "action", ex[p].a, ex[p].s,
                               ex[p].n + 1, ex[p].account))
    /\ UNCHANGED <<accounts, now, transactions, user_credits>>

\* the pacing sleep of line 253 is over: next action_num
AddPaceWake(p) ==
    /\ ex[p].pc = "add_pace"
    /\ now >= ex[p].wake
    /\ Settle(p, ex[p], scheduled_tasks, running_tasks,
              add_members_next(Task(p), accounts, now, "action", ex[p].a, ex[p].s,
                               ex[p].n + 1, ex[p].account))
    /\ UNCHANGED <<accounts, now, transactions, user_credits>>

\* asyncio.sleep of line 269 is over: the batch's sources start
BatchWake(p) ==
    /\ ex[p].pc = "batch_wait"
    /\ now >= ex[p].wake
    /\ Settle(p, ex[p], scheduled_tasks, running_tasks,
              bulk_scrape_next(Task(p), accounts, now, "source", ex[p].a, 1))
    /\ UNCHANGED <<accounts, now, transactions, user_credits>>

\* _scrape_single_source returned: progress += 1, then the sleep of line 281
ScrapeReturn(p) ==
    /\ ex[p].pc = "scrape_call"
    /\ now >= ex[p].wake
    /\ scheduled_tasks' = [scheduled_tasks EXCEPT
                               ![ex[p].task].progress = Task(p).progress + 1]
    /\ ex' = [ex EXCEPT ![p].pc = "scrape_pace",
                        ![p].calls = ex[p].calls + 1,
                        ![p].ok_calls = ex[p].ok_calls + 1,
                        ![p].wake = now + 120 * SecondMs]
    /\ UNCHANGED <<accounts, running_tasks, now, transactions, user_credits>>

\* _scrape_single_source raised: caught at line 283, next source without a sleep
ScrapeRaise(p) ==
    /\ ex[p].pc = "scrape_call"
    /\ now >= ex[p].wake
    /\ Settle(p, [ex[p] EXCEPT !.calls = ex[p].calls + 1], scheduled_tasks, running_tasks,
              bulk_scrape_next(Task(p), accounts, now, "source", ex[p].a, ex[p].n + 1))
    /\ UNCHANGED <<accounts, now, transactions, user_credits>>

\* the sleep of line 281 is over: next source
ScrapePaceWake(p) ==
    /\ ex[p].pc = "scrape_pace"
    /\ now >= ex[p].wake
    /\ Settle(p, ex[p], scheduled_tasks, running_tasks,
              bulk_scrape_next(Task(p), accounts, now, "source", ex[p].a, ex[p].n + 1))
    /\ UNCHANGED <<accounts, now, transactions, user_credits>>

\* The rotator is a collaborator handed to the constructor (line 10); the two
\* actions below are the runs in which its get_best_account raises at line 226,
\* outside the per-unit try, so that the exception reaches line 212.

\* the handler of line 212 taken for a task that was done: the exception is
\* logged and the task is COMPLETED
Abort_completed(p, proc, tasks, running, message) ==
    /\ scheduled_tasks' = [tasks EXCEPT ![proc.task].status = "COMPLETED",
                                        ![proc.task].completed_at = now]
    /\ running_tasks' = running \ {proc.id}
    /\ ex' = [ex EXCEPT ![p] = [proc EXCEPT !.pc = "returned", !.wake = NoTime]]

\* except Exception (lines 212-215) and finally (lines 217-218): the task is
\* FAILED with str(e) as its error and leaves running_tasks
Abort(p, proc, tasks, running, message) ==
    /\ scheduled_tasks' = [tasks EXCEPT ![proc.task].status = "FAILED",
                                        ![proc.task].error = message]
    /\ running_tasks' = running \ {proc.id}
    /\ ex' = [ex EXCEPT ![p] = [proc EXCEPT !.pc = "returned", !.wake = NoTime]]

\* execute_scheduled_task(id) of an ADD_MEMBERS task with a plan:
\* get_best_account raises for the first allocation
ExecuteRaise(p, id) ==
    LET ti == get_task(scheduled_tasks, id) IN
    /\ ex[p].pc = "idle"
    /\ ti # 0
    /\ scheduled_tasks[ti].status = "SCHEDULED"
    /\ scheduled_tasks[ti].type = "ADD_MEMBERS"
    /\ scheduled_tasks[ti].distribution # <<>>
    /\ Abort(p, [ex[p] EXCEPT !.id = id, !.task = ti],
             [scheduled_tasks EXCEPT ![ti].status = "RUNNING", ![ti].started_at = now],
             running_tasks \cup {id}, "RotatorError")
    /\ UNCHANGED <<accounts, now, transactions, user_credits>>

\* the coroutine p resumes in an allocation, finishes it in this step, and
\* get_best_account raises for the next allocation
SelectRaises(p) ==
    /\ ex[p].pc \in {"slot_wait", "add_call", "add_pace"}
    /\ now >= ex[p].wake
    /\ LET n == IF ex[p].pc = "slot_wait" THEN 0 ELSE ex[p].n + 1
           pos == add_members_next(Task(p), accounts, now, "action", ex[p].a, ex[p].s,
                                   n, ex[p].account)
           proc == IF ex[p].pc = "add_call"       \* the call raised (line 255)
                   THEN [ex[p] EXCEPT !.calls = ex[p].calls + 1,
                                      !.passed = Append(ex[p].passed, ex[p].n)]
                   ELSE ex[p]
       IN /\ ex[p].a < Len(Task(p).distribution)
          /\ pos.pc = "finish" \/ pos.a > ex[p].a
          /\ Abort(p, proc, scheduled_tasks, running_tasks, "RotatorError")
    /\ UNCHANGED <<accounts, now, transactions, user_credits>>

\* The coroutine p is cancelled at its await: asyncio.CancelledError is a
\* BaseException, so neither "except Exception" (lines 255/283, 212) catches it;
\* only the finally of line 217 runs and the task record keeps its status.
Cancel(p) ==
    /\ ex[p].pc \in Suspended
    /\ ex' = [ex EXCEPT ![p].pc = "cancelled", ![p].wake = NoTime]
    /\ running_tasks' = running_tasks \ {ex[p].id}
    /\ UNCHANGED <<accounts, scheduled_tasks, now, transactions, user_credits>>

\* The clock.  A coroutine whose sleep is over runs before time passes; time
\* passes to the next wake-up.
Deadlines == {ex[p].wake : p \in {q \in Procs : ex[q].pc \in Suspended}}
NextTime == CHOOSE t \in Deadlines : \A u \in Deadlines : t <= u
Advance ==
    /\ Deadlines # {}
    /\ \A t \in Deadlines : t > now
    /\ now' = NextTime
    /\ UNCHANGED <<accounts, scheduled_tasks, running_tasks, ex, transactions, user_credits>>

\* The clock with no coroutine asleep: half an hour passes.
Tick ==
    /\ Deadlines = {}
    /\ now' = now + 30 * MinuteMs
    /\ UNCHANGED <<accounts, scheduled_tasks, running_tasks, ex, transactions, user_credits>>

----------------------------------------------------------------------------
(* EscrowService.  A transaction id is a fresh uuid4: here the place of the   *)
(* record in the order of creation.  The fields written once at creation    *)
(* and never read by confirm or complete (description, fee, deadline) are   *)
(* left out; completed_at, a key added at completion, is NoTime before.     *)

Parties == {"u1", "u2"}
Callers == Parties \cup {"u3"}
Roles == {"buyer", "seller", "admin"}

\* create_transaction: the record stored under the new id
create_transaction(txs, buyer, seller, amount, t) ==
    Append(txs, [id |-> Len(txs) + 1, buyer |-> buyer, seller |-> seller,
                 amount |-> amount, status |-> "PENDING",
                 created_at |-> t, updated_at |-> t,
                 buyer_confirmed |-> FALSE, seller_confirmed |-> FALSE,
                 completed_at |-> NoTime])

\* the message of the error confirm_transaction returns, None on success
confirm_error(txs, tx_id, user_id, role) ==
    IF tx_id \notin DOMAIN txs THEN "Transaction not found"
    ELSE IF txs[tx_id].status # "PENDING"
    THEN "Transaction cannot be confirmed in current status"
    ELSE IF role = "buyer" /\ txs[tx_id].buyer = user_id THEN None
    ELSE IF role = "seller" /\ txs[tx_id].seller = user_id THEN None
    ELSE "Unauthorized confirmation"

\* lines 73-75: with both confirmations the transaction is CONFIRMED
confirm_both(txs, tx_id, t) ==
    IF txs[tx_id].buyer_confirmed /\ txs[tx_id].seller_confirmed
    THEN [txs EXCEPT ![tx_id].status = "CONFIRMED", ![tx_id].updated_at = t]
    ELSE txs

\* confirm_transaction: the records after the call
confirm_transaction(txs, tx_id, user_id, role, t) ==
    IF tx_id \notin DOMAIN txs THEN txs
    ELSE IF txs[tx_id].status # "PENDING" THEN txs
    ELSE IF role = "buyer" /\ txs[tx_id].buyer = user_id
    THEN confirm_both([txs EXCEPT ![tx_id].buyer_confirmed = TRUE], tx_id, t)
    ELSE IF role = "seller" /\ txs[tx_id].seller = user_id
    THEN confirm_both([txs EXCEPT ![tx_id].seller_confirmed = TRUE], tx_id, t)
    ELSE txs

\* the message of the error complete_transaction returns, None on success
complete_error(txs, tx_id, user_id) ==
    IF tx_id \notin DOMAIN txs THEN "Transaction not found"
    ELSE IF txs[tx_id].buyer # user_id THEN "Only buyer can complete transaction"
    ELSE IF txs[tx_id].status # "CONFIRMED"
    THEN "Transaction must be confirmed before completion"
    ELSE None

\* complete_transaction without the test of line 96: any user completes
complete_transaction_by_anyone(txs, tx_id, user_id, t) ==
    IF tx_id \notin DOMAIN txs THEN txs
    ELSE IF txs[tx_id].status # "CONFIRMED" THEN txs
    ELSE [txs EXCEPT ![tx_id].status = "COMPLETED",
                     ![tx_id].completed_at = t,
                     ![tx_id].updated_at = t]

\* complete_transaction: the records after the call
complete_transaction(txs, tx_id, user_id, t) ==
    IF tx_id \notin DOMAIN txs THEN txs
    ELSE IF txs[tx_id].buyer # user_id THEN txs
    ELSE IF txs[tx_id].status # "CONFIRMED" THEN txs
    ELSE [txs EXCEPT ![tx_id].status = "COMPLETED",
                     ![tx_id].completed_at = t,
                     ![tx_id].updated_at = t]

CreateTransaction(buyer, seller, amount) ==
    /\ transactions' = create_transaction(transactions, buyer, seller, amount, now)
    /\ UNCHANGED <<accounts, scheduled_tasks, running_tasks, ex, now, user_credits>>

ConfirmTransaction(tx_id, user_id, role) ==
    /\ transactions' = confirm_transaction(transactions, tx_id, user_id, role, now)
    /\ UNCHANGED <<accounts, scheduled_tasks, running_tasks, ex, now, user_credits>>

CompleteTransaction(tx_id, user_id) ==
    /\ transactions' = complete_transaction(transactions, tx_id, user_id, now)
    /\ UNCHANGED <<accounts, scheduled_tasks, running_tasks, ex, now, user_credits>>

----------------------------------------------------------------------------
(* CreditSystem, with the in-memory store (no database connection; the      *)
(* database mock of lines 249-258 reads and writes the same dict).          *)

cost_matrix ==
    [action_type \in {"SCRAPE", "ADD_MEMBER", "SEARCH", "JOIN_GROUP", "SEND_MESSAGE",
                      "BULK_SCRAPE", "PREMIUM_SEARCH", "ANALYTICS_REPORT"} |->
        CASE action_type = "SCRAPE" -> 5
          [] action_type = "ADD_MEMBER" -> 1
          [] action_type = "SEARCH" -> 2
          [] action_type = "JOIN_GROUP" -> 3
          [] action_type = "SEND_MESSAGE" -> 1
          [] action_type = "BULK_SCRAPE" -> 20
          [] action_type = "PREMIUM_SEARCH" -> 5
          [] action_type = "ANALYTICS_REPORT" -> 10]

\* the action types a caller may pass: those of the table, and one that is not
ActionTypes == DOMAIN cost_matrix \cup {"UNLISTED"}

\* user_credits.get(user_id, 0)
get_user_credits(credits, user_id) ==
    IF user_id \in DOMAIN credits THEN credits[user_id] ELSE 0

\* the store with credits[user_id] = balance
SetBalance(credits, user_id, balance) ==
    [u \in DOMAIN credits \cup {user_id} |->
        IF u = user_id THEN balance ELSE credits[u]]

\* add_credits: the store after the call
add_credits(credits, user_id, amount) ==
    SetBalance(credits, user_id, get_user_credits(credits, user_id) + amount)

\* the cost deduct_credits charges: custom_amount, or the table's, or 1
deduct_cost(action_type, custom_amount) ==
    IF custom_amount # None THEN custom_amount
    ELSE IF action_type \in DOMAIN cost_matrix THEN cost_matrix[action_type]
    ELSE 1

\* the 'status' of the dict deduct_credits returns
deduct_status(credits, user_id, action_type, custom_amount) ==
    IF get_user_credits(credits, user_id) < deduct_cost(action_type, custom_amount)
    THEN "insufficient_credits"
    ELSE "success"

\* deduct_credits without the test of line 75
deduct_credits_on_credit(credits, user_id, action_type, custom_amount) ==
    SetBalance(credits, user_id,
               get_user_credits(credits, user_id) - deduct_cost(action_type, custom_amount))

\* deduct_credits: the store after the call
deduct_credits(credits, user_id, action_type, custom_amount) ==
    LET cost == deduct_cost(action_type, custom_amount)
        current_credits == get_user_credits(credits, user_id)
    IN IF current_credits < cost THEN credits
       ELSE SetBalance(credits, user_id, current_credits - cost)

AddCredits(user_id, amount) ==
    /\ user_credits' = add_credits(user_credits, user_id, amount)
    /\ UNCHANGED <<accounts, scheduled_tasks, running_tasks, ex, now, transactions>>

DeductCredits(user_id, action_type) ==
    /\ user_credits' = deduct_credits(user_credits, user_id, action_type, None)
    /\ UNCHANGED <<accounts, scheduled_tasks, running_tasks, ex, now, transactions>>

----------------------------------------------------------------------------
(* Specifications.  The actions above are the code; the guards added here    *)
(* bound the pool, the registry, the counters and the clock.               *)

Init ==
    /\ accounts = <<>>
    /\ scheduled_tasks = <<>>
    /\ running_tasks = {}
    /\ ex = [p \in Procs |-> IdleProc]
    /\ now = StartHour * HourMs
    /\ transactions = <<>>
    /\ user_credits = [u \in {} |-> 0]

LastTime == (StartHour + MaxHours) * HourMs
Filters == {None, "SCHEDULED", "RUNNING", "COMPLETED", "FAILED"}
AnyId == KnownIds \cup {UnknownId}
Budgets == {1, MaxBudget}

PoolOpen == Len(accounts) < MaxAccounts
RegistryOpen(k) == Len(scheduled_tasks) < k
\* a caller starts the first coroutine not yet started (they are interchangeable)
FirstIdle(p) == ex[p].pc = "idle" /\ \A q \in 1..(p - 1) : ex[q].pc # "idle"
Known(phone) == FirstWithPhone(accounts, phone) # 0
BelowCap(phone, field) == accounts[FirstWithPhone(accounts, phone)][field] < MaxReports
MoreOutcomes(phone) ==
    accounts[FirstWithPhone(accounts, phone)].total_actions < MaxOutcomes

\* the steps of the coroutine p, and the clock
Step(p) ==
    \/ SlotWake(p)
    \/ AddReturn(p)
    \/ AddRaise(p)
    \/ AddPaceWake(p)
    \/ BatchWake(p)
    \/ ScrapeReturn(p)
    \/ ScrapeRaise(p)
    \/ ScrapePaceWake(p)
    \/ Cancel(p)

Clock == Deadlines # {} /\ NextTime <= LastTime /\ Advance

(* Spec: the scheduler with up to MaxTasks tasks of MaxWork work items in    *)
(* all, driven by up to MaxProcs concurrent coroutines, over a pool that    *)
(* grows and whose accounts get banned.                                     *)
PairZones == {"Asia/Tokyo", "Invalid/Zone"}
Work == SumSeq([i \in DOMAIN scheduled_tasks |-> scheduled_tasks[i].total_actions])
RoomFor(n) == Len(scheduled_tasks) < MaxTasks /\ Work + n <= MaxWork

Next ==
    \/ \E phone \in Phones : PoolOpen /\ Register(phone)
    \/ \E phone \in Phones :
          Known(phone) /\ BelowCap(phone, "banned_count") /\ ReportBanned(phone)
    \/ \E n \in 0..MaxWork, b \in Budgets, tz \in PairZones :
          RoomFor(n) /\ ScheduleAddMembers(n, b, tz)
    \/ \E n \in 0..MaxWork, b \in 0..MaxWork, tz \in PairZones :
          RoomFor(n) /\ ScheduleBulkScrape(n, b, tz)
    \/ \E id \in AnyId : Status(id)
    \/ \E f \in Filters : List(f)
    \/ \E p \in Procs, id \in AnyId : FirstIdle(p) /\ Execute(p, id)
    \/ \E p \in Procs : Step(p)
    \/ Clock

Spec == Init /\ [][Next]_vars

(* SpecSolo: one task of up to MaxUsers users or MaxSources sources, driven  *)
(* by one coroutine.                                                        *)
UserCounts == {0, 1, 2, MaxUsers}

SoloNext ==
    \/ \E phone \in Phones : PoolOpen /\ Register(phone)
    \/ \E phone \in Phones :
          Known(phone) /\ BelowCap(phone, "banned_count") /\ ReportBanned(phone)
    \/ \E n \in UserCounts, b \in Budgets, tz \in TimeZones :
          RegistryOpen(1) /\ ScheduleAddMembers(n, b, tz)
    \/ \E n \in 0..MaxSources, b \in 0..MaxSources, tz \in TimeZones :
          RegistryOpen(1) /\ ScheduleBulkScrape(n, b, tz)
    \/ \E id \in AnyId : Status(id)
    \/ \E f \in Filters : List(f)
    \/ \E id \in AnyId : Execute(1, id)
    \/ Step(1)
    \/ Clock

SpecSolo == Init /\ [][SoloNext]_vars

(* SpecLive: SpecSolo with the clock running as far as the plan goes, for   *)
(* the claims about termination.  The event loop resumes a coroutine whose  *)
(* await is over (weak fairness of Run), the clock advances to the next     *)
(* wake-up (weak fairness of Advance); a cancellation may come or not.      *)
Run(p) ==
    \/ SlotWake(p)
    \/ AddReturn(p)
    \/ AddRaise(p)
    \/ AddPaceWake(p)
    \/ BatchWake(p)
    \/ ScrapeReturn(p)
    \/ ScrapeRaise(p)
    \/ ScrapePaceWake(p)

LiveNext ==
    \/ \E phone \in Phones : PoolOpen /\ Register(phone)
    \/ \E phone \in Phones :
          Known(phone) /\ BelowCap(phone, "banned_count") /\ ReportBanned(phone)
    \/ \E n \in UserCounts, b \in Budgets, tz \in TimeZones :
          RegistryOpen(1) /\ ScheduleAddMembers(n, b, tz)
    \/ \E n \in 0..MaxSources, b \in 0..MaxSources, tz \in TimeZones :
          RegistryOpen(1) /\ ScheduleBulkScrape(n, b, tz)
    \/ \E id \in AnyId : Execute(1, id)
    \/ Run(1)
    \/ Cancel(1)
    \/ Advance

SpecLive == Init /\ [][LiveNext]_vars /\ WF_vars(Run(1)) /\ WF_vars(Advance)

(* SpecFault: SpecSolo over a rotator whose get_best_account may raise.     *)
FaultNext ==
    \/ SoloNext
    \/ \E id \in AnyId : ExecuteRaise(1, id)
    \/ SelectRaises(1)

SpecFault == Init /\ [][FaultNext]_vars

(* SpecEscrow: the escrow service with up to MaxTransactions transactions  *)
(* between the parties, every caller trying every call, and the clock.     *)
AnyTx == 1..(MaxTransactions + 1)

EscrowNext ==
    \/ \E buyer \in Parties, seller \in Parties, amount \in 1..MaxAmount :
          Len(transactions) < MaxTransactions /\ CreateTransaction(buyer, seller, amount)
    \/ \E tx_id \in AnyTx, user_id \in Callers, role \in Roles :
          ConfirmTransaction(tx_id, user_id, role)
    \/ \E tx_id \in AnyTx, user_id \in Callers : CompleteTransaction(tx_id, user_id)
    \/ now + 30 * MinuteMs <= LastTime /\ Tick

SpecEscrow == Init /\ [][EscrowNext]_vars

(* SpecCredits: the credit system for the callers, with grants of 0 to      *)
(* MaxGrant credits while the balance is below MaxBalance, and deductions   *)
(* priced by the cost table.                                                *)
CreditsNext ==
    \/ \E user_id \in Callers, amount \in 0..MaxGrant :
          get_user_credits(user_credits, user_id) + amount <= MaxBalance
              /\ AddCredits(user_id, amount)
    \/ \E user_id \in Callers, action_type \in ActionTypes :
          DeductCredits(user_id, action_type)

SpecCredits == Init /\ [][CreditsNext]_vars

(* SpecRotator: the rotator alone, called from outside the scheduler.       *)
RotatorNext ==
    \/ \E phone \in Phones : PoolOpen /\ Register(phone)
    \/ \E phone \in Phones, success \in BOOLEAN :
          Known(phone) /\ MoreOutcomes(phone) /\ ReportOutcome(phone, success)
    \/ \E phone \in Phones :
          Known(phone) /\ BelowCap(phone, "banned_count") /\ ReportBanned(phone)
    \/ \E phone \in Phones :
          Known(phone) /\ BelowCap(phone, "rate_limit_count") /\ ReportRateLimited(phone)
    \/ SelectBest
    \/ now + 30 * MinuteMs <= LastTime /\ Tick

SpecRotator == Init /\ [][RotatorNext]_vars

(* SpecPlan: schedule_add_members and schedule_bulk_scrape over every list   *)
(* length and hourly budget, at several hours of the day, over a pool that  *)
(* grows and gets banned.                                                  *)
PlanNext ==
    \/ \E phone \in Phones : PoolOpen /\ Register(phone)
    \/ \E phone \in Phones :
          Known(phone) /\ BelowCap(phone, "banned_count") /\ ReportBanned(phone)
    \/ \E n \in 0..MaxUsers, b \in 0..MaxBudget, tz \in TimeZones :
          RegistryOpen(1) /\ ScheduleAddMembers(n, b, tz)
    \/ \E n \in 0..MaxPlanned, b \in 0..MaxBudget, tz \in TimeZones :
          RegistryOpen(1) /\ ScheduleBulkScrape(n, b, tz)
    \/ now + 30 * MinuteMs <= LastTime /\ Tick

SpecPlan == Init /\ [][PlanNext]_vars

(* SpecScore: one account that is reported on until its penalties reach 0.  *)
Under(phone, field, cap) == accounts[FirstWithPhone(accounts, phone)][field] < cap

ScoreNext ==
    \/ \E phone \in Phones : accounts = <<>> /\ Register(phone)
    \/ \E phone \in Phones, success \in BOOLEAN :
          Known(phone) /\ MoreOutcomes(phone) /\ ReportOutcome(phone, success)
    \/ \E phone \in Phones :
          Known(phone) /\ Under(phone, "banned_count", MaxBans) /\ ReportBanned(phone)
    \/ \E phone \in Phones :
          Known(phone) /\ Under(phone, "rate_limit_count", MaxRateLimits)
            /\ ReportRateLimited(phone)
    \/ SelectBest
    \/ now + 30 * MinuteMs <= LastTime /\ Tick

SpecScore == Init /\ [][ScoreNext]_vars

----------------------------------------------------------------------------
(* Properties *)

Tasks == DOMAIN scheduled_tasks
AddTasks == {i \in Tasks : scheduled_tasks[i].type = "ADD_MEMBERS"}
InCall(p) == ex[p].pc \in {"add_call", "scrape_call"}
\* the coroutine p drove a task to the end of its plan
Drove(p) == ex[p].pc = "returned" /\ ex[p].task # 0
SumOver(S, f(_)) == SumSeq([k \in 1..Cardinality(S) |->
                        f(CHOOSE x \in S : Cardinality({y \in S : y <= x}) = k)])
CallsOf(p) == ex[p].calls
TotalActionsOf(i) == accounts[i].total_actions

\* C1: in every reachable state, every task that is RUNNING or has finished has
\* 0 <= progress <= total_actions.
C1_ProgressWithinTotal ==
    \A i \in Tasks :
        scheduled_tasks[i].status \in {"RUNNING", "COMPLETED", "FAILED"} =>
            /\ 0 <= scheduled_tasks[i].progress
            /\ scheduled_tasks[i].progress <= scheduled_tasks[i].total_actions

\* ceil(hours_needed * actions_per_hour) in doubles, hours_needed = fl(u/a): u,
\* or u + 1 when the product rounds above u
CeilHoursTimesRate(u, a) ==
    LET e == DivError(u, a)
        t == FloorLog2(u, 1) - FloorLog2(u, a) - 1
        roundsToU == IF t >= 0 THEN e <= Pow2(t) ELSE e * Pow2(0 - t) <= 1
    IN IF e <= 0 \/ roundsToU THEN u ELSE u + 1

SlotTargets(alloc) == [k \in DOMAIN alloc.time_slots |-> alloc.time_slots[k].target_actions]

\* C2: for every allocation of every add-members plan, the slots' target_actions
\* sum to at most ceil(hours_needed * actions_per_hour), and no slot lasts more
\* than one hour.
C2_SlotTargetsWithinBudget ==
    \A i \in AddTasks : \A a \in DOMAIN scheduled_tasks[i].distribution :
        LET alloc == scheduled_tasks[i].distribution[a] IN
        /\ SumSeq(SlotTargets(alloc))
             <= CeilHoursTimesRate(alloc.hours_needed[1], alloc.hours_needed[2])
        /\ \A k \in DOMAIN alloc.time_slots :
             alloc.time_slots[k].duration_hours[1] <= alloc.time_slots[k].duration_hours[2]

\* C3: a task stays in the registry; in one step its status stays, or moves
\* SCHEDULED -> RUNNING, or RUNNING -> COMPLETED / FAILED, or, when execute runs
\* the whole plan without reaching an await, SCHEDULED -> (RUNNING ->) COMPLETED
\* with started_at and completed_at both set by that step; and a COMPLETED or
\* FAILED task record never changes again (status, progress, error).
C3_StatusStep(old, new) ==
    /\ \/ new.status = old.status
       \/ old.status = "SCHEDULED" /\ new.status = "RUNNING"
       \/ old.status = "RUNNING" /\ new.status \in {"COMPLETED", "FAILED"}
       \/ /\ old.status = "SCHEDULED" /\ new.status = "COMPLETED"
          /\ new.started_at = now /\ new.completed_at = now
    /\ old.status \in {"COMPLETED", "FAILED"} => new = old
C3_StatusMonotonic ==
    [][/\ Len(scheduled_tasks') >= Len(scheduled_tasks)
       /\ \A i \in Tasks : C3_StatusStep(scheduled_tasks[i], scheduled_tasks'[i])]_vars

\* C3 witness: a task COMPLETED after successful work, while another task was
\* started after it completed and is RUNNING
C3_Witness ==
    \E i \in Tasks, j \in Tasks :
        /\ scheduled_tasks[i].status = "COMPLETED"
        /\ scheduled_tasks[i].progress > 0
        /\ scheduled_tasks[j].status = "RUNNING"
        /\ scheduled_tasks[j].started_at >= scheduled_tasks[i].completed_at

\* C4: get_best_account never returns an account that is not LIVE, and returns
\* None exactly when the pool holds no LIVE account.
C4_SelectBestIsLive ==
    LET best == get_best_account(accounts, now) IN
    /\ best # 0 => best \in DOMAIN accounts /\ accounts[best].status = "LIVE"
    /\ best = 0 <=> \A i \in DOMAIN accounts : accounts[i].status # "LIVE"

\* C4 witness: a LIVE account is returned although a BANNED account of the pool
\* has the highest score
C4_Witness ==
    /\ get_best_account(accounts, now) # 0
    /\ get_best_account_nofilter(accounts, now) # 0
    /\ accounts[get_best_account_nofilter(accounts, now)].status = "BANNED"

\* C5: no two coroutines are inside a single-action call with the same account
\* at the same time.
C5_NoDoubleBooking ==
    \A p \in Procs, q \in Procs :
        (p # q /\ InCall(p) /\ InCall(q)) => ex[p].account # ex[q].account

\* C6 (as the specification states it): a run whose every single-action call failed ends COMPLETED
\* with progress = total_actions and no successful outcome in the pool.
C6_AllFailedProgressIsTotal ==
    \A p \in Procs :
        (Drove(p) /\ ex[p].calls > 0 /\ ex[p].ok_calls = 0) =>
            /\ Task(p).status = "COMPLETED"
            /\ Task(p).progress = Task(p).total_actions
            /\ \A i \in DOMAIN accounts : accounts[i].successful_actions = 0

\* C6 (amended): a run whose every single-action call failed ends COMPLETED
\* with progress = 0 (progress counts the successful calls only) and no
\* successful outcome in the pool.
C6_AllFailedProgressIsZero ==
    \A p \in Procs :
        (Drove(p) /\ ex[p].calls > 0 /\ ex[p].ok_calls = 0) =>
            /\ Task(p).status = "COMPLETED"
            /\ Task(p).progress = 0
            /\ \A i \in DOMAIN accounts : accounts[i].successful_actions = 0

\* C6 witness: a finished add-members run that called once per user, at least
\* twice, and every call failed
C6_Witness ==
    \E p \in Procs :
        /\ Drove(p) /\ Task(p).type = "ADD_MEMBERS"
        /\ ex[p].calls = Task(p).total_actions /\ ex[p].calls >= 2
        /\ ex[p].ok_calls = 0

\* C7: at most one coroutine ever drives a task (the SCHEDULED -> RUNNING step
\* is taken once), and an execute call that finds no task or a task that is not
\* SCHEDULED makes no single-action call and changes no task.
C7_Rejected(p) == ex[p].pc = "idle" /\ ex'[p].pc = "returned" /\ ex'[p].task = 0
C7_SingleDriver ==
    [][/\ \A i \in DOMAIN scheduled_tasks' :
             Cardinality({p \in Procs : ex'[p].task = i}) <= 1
       /\ \A p \in Procs :
             (ex[p].pc = "idle" /\ ex'[p].pc # "idle"
                /\ (get_task(scheduled_tasks, ex'[p].id) = 0
                    \/ scheduled_tasks[get_task(scheduled_tasks, ex'[p].id)].status
                         # "SCHEDULED"))
             => /\ C7_Rejected(p)
                /\ ex'[p].calls = 0
                /\ scheduled_tasks' = scheduled_tasks
                /\ running_tasks' = running_tasks]_vars

\* C7 witness: a second execute call on the id of a task another coroutine is
\* driving has returned without a task
C7_Witness ==
    \E p \in Procs, q \in Procs :
        /\ p # q
        /\ ex[p].pc \in Suspended /\ Task(p).status = "RUNNING"
        /\ ex[q].pc = "returned" /\ ex[q].task = 0 /\ ex[q].id = ex[p].id

\* C8: a coroutine cancelled at an await leaves its task FAILED with the reason
\* 'cancelled'.
C8_CancelledIsFailed ==
    \A p \in Procs :
        ex[p].pc = "cancelled" =>
            /\ Task(p).status = "FAILED"
            /\ Task(p).error = "cancelled"

\* C9: when the runs have finished, the accounts' total_actions have grown by
\* the number of single-action calls made (no other caller reports outcomes in
\* Spec and SpecSolo, so the growth is the sum of total_actions).
C9_OutcomesReported ==
    (\A p \in Procs : ex[p].pc \in {"idle", "returned"}) =>
        SumOver(DOMAIN accounts, TotalActionsOf) = SumOver(Procs, CallsOf)

\* C10: every single-action call starts with an account that is LIVE at that
\* moment.
C10_CallStarts(p) ==
    /\ ex'[p].pc \in {"add_call", "scrape_call"}
    /\ ex'[p] # ex[p]
C10_CallsUseLiveAccount ==
    [][\A p \in Procs :
          C10_CallStarts(p) => accounts'[ex'[p].account].status = "LIVE"]_vars

\* C11: a single-action call that fails never moves its task to FAILED and never
\* stops the run: the next unit of the same slot (or batch) is called next, and
\* the run ends there only when no later slot, allocation, source or batch has a
\* unit it could call.
C11_CallFailed(p) ==
    /\ InCall(p)
    /\ ex'[p].calls = ex[p].calls + 1
    /\ ex'[p].ok_calls = ex[p].ok_calls
C11_SlotUnits(task, a, s) ==
    Min(task.distribution[a].time_slots[s].target_actions, Len(task.items))
C11_AddGoesOn(p) ==
    LET task == Task(p)
        a == ex[p].a
        s == ex[p].s
        slots == task.distribution[a].time_slots
    IN /\ ex[p].n + 1 < C11_SlotUnits(task, a, s) =>
            /\ ex'[p].pc = "add_call"
            /\ ex'[p].a = a /\ ex'[p].s = s /\ ex'[p].n = ex[p].n + 1
            /\ ex'[p].account = ex[p].account
       /\ ex'[p].pc = "returned" =>
            /\ \A s2 \in (s + 1)..Len(slots) : C11_SlotUnits(task, a, s2) = 0
            /\ \/ LiveAccounts(accounts) = {}
               \/ \A a2 \in (a + 1)..Len(task.distribution) :
                     \A s2 \in DOMAIN task.distribution[a2].time_slots :
                         C11_SlotUnits(task, a2, s2) = 0
C11_ScrapeGoesOn(p) ==
    LET task == Task(p)
        b == ex[p].a
        later == \/ ex[p].n < Len(task.distribution[b].sources)
                 \/ \E b2 \in (b + 1)..Len(task.distribution) :
                       task.distribution[b2].sources # <<>>
    IN /\ (ex[p].n < Len(task.distribution[b].sources) /\ LiveAccounts(accounts) # {}) =>
            /\ ex'[p].pc = "scrape_call"
            /\ ex'[p].a = b /\ ex'[p].n = ex[p].n + 1
       /\ ex'[p].pc = "returned" => (~later \/ LiveAccounts(accounts) = {})
C11_FailureDoesNotAbort ==
    [][\A p \in Procs :
          C11_CallFailed(p) =>
             /\ scheduled_tasks'[ex[p].task].status \in {"RUNNING", "COMPLETED"}
             /\ scheduled_tasks'[ex[p].task].error = None
             /\ ex'[p].pc \in Suspended \cup {"returned"}
             /\ ex'[p].pc = "returned" => scheduled_tasks'[ex[p].task].status = "COMPLETED"
             /\ IF ex[p].pc = "add_call" THEN C11_AddGoesOn(p) ELSE C11_ScrapeGoesOn(p)]_vars

\* C11 witness: after a failed call of the first slot the run has gone on and is
\* calling in the second slot
C11_Witness ==
    \E p \in Procs :
        /\ ex[p].pc = "add_call" /\ ex[p].s = 2
        /\ ex[p].calls > ex[p].ok_calls
        /\ Task(p).status = "RUNNING"

\* the task appended by this step, when the step is a successful schedule call
Scheduled(type) ==
    /\ Len(scheduled_tasks') = Len(scheduled_tasks) + 1
    /\ scheduled_tasks'[Len(scheduled_tasks')].type = type
NewTask == scheduled_tasks'[Len(scheduled_tasks')]

\* C12: the plan of schedule_add_members for userCount >= 1 users over n usable
\* accounts (1 <= n <= userCount, n = min(userCount, LIVE accounts)) has n
\* allocations; allocation i (from 0) gets floor(userCount / n) users plus one
\* when i < userCount mod n, and the user counts sum to userCount.
C12_EvenSplit ==
    [][Scheduled("ADD_MEMBERS") =>
          LET plan == NewTask.distribution
              userCount == NewTask.total_actions
              n == Min(userCount, live_accounts(accounts))
          IN /\ userCount >= 1 /\ n >= 1
             /\ Len(plan) = n
             /\ \A i \in 1..n :
                   plan[i].users_count =
                      (userCount \div n) + (IF i - 1 < userCount % n THEN 1 ELSE 0)
             /\ SumSeq([i \in 1..n |-> plan[i].users_count]) = userCount]_vars

\* C12 witness: a recorded plan of two allocations whose first got one user more
C12_Witness ==
    \E i \in AddTasks :
        /\ Len(scheduled_tasks[i].distribution) = 2
        /\ scheduled_tasks[i].distribution[1].users_count
             = scheduled_tasks[i].distribution[2].users_count + 1

\* C13: with no LIVE account in the pool, schedule_add_members raises for every
\* user list, hourly budget and zone, and no step records an ADD_MEMBERS task.
C13_NoCapacityRaises ==
    [][live_accounts(accounts) = 0 =>
          /\ \A n \in 0..MaxUsers, b \in 0..MaxBudget, tz \in TimeZones :
                distribution_error(n, Min(n, live_accounts(accounts)), b, tz) # None
          /\ ~Scheduled("ADD_MEMBERS")]_vars

\* C13 witness: the pool holds accounts, none of them LIVE, the call for one user
\* in a valid zone raises the division by zero of line 86, and the registry is empty
C13_Witness ==
    /\ accounts # <<>>
    /\ live_accounts(accounts) = 0
    /\ distribution_error(1, Min(1, live_accounts(accounts)), MaxBudget, "UTC")
         = "ZeroDivisionError"
    /\ scheduled_tasks = <<>>

\* C14: for every recorded task, in every status, get_task_status(id) returns
\* the task's snapshot and list_tasks returns a list of snapshots (neither
\* raises), and the snapshot of a FAILED task carries an error.
C14_StatusNeverFails ==
    /\ \A i \in Tasks :
          LET snap == get_task_status(scheduled_tasks, scheduled_tasks[i].id) IN
          /\ "raised" \notin DOMAIN snap
          /\ snap.status # "not_found"
          /\ snap.status = "FAILED" => snap.error # None
    /\ \A f \in Filters : "raised" \notin DOMAIN list_tasks(scheduled_tasks, f)

\* C15: the recorded tasks have pairwise distinct ids, so get_task of the id a
\* schedule call returned finds the task that call recorded.
C15_IdsAreUnique ==
    \A i \in Tasks :
        /\ get_task(scheduled_tasks, scheduled_tasks[i].id) = i
        /\ \A j \in Tasks : i # j => scheduled_tasks[i].id # scheduled_tasks[j].id

\* C16: the account get_best_account returns is LIVE, no LIVE account has a
\* higher score, and of the LIVE accounts with the same score none was last
\* used earlier (last_used None, here NoTime, being earlier than every time).
C16_BestScoreEarliestUse ==
    LET best == get_best_account(accounts, now) IN
    best # 0 =>
        /\ accounts[best].status = "LIVE"
        /\ \A j \in LiveAccounts(accounts) :
              /\ ~ScoreGreater(accounts[j], accounts[best], now)
              /\ ScoreEqual(accounts[j], accounts[best], now)
                    => accounts[best].last_used <= accounts[j].last_used

\* the exact rate successful_actions / total_actions as a fraction
SameRate(rate, k, n) == rate[1] * n = k * rate[2]

\* C17: an account starts with total_actions = successful_actions = 0 and
\* last_used None; the only steps that change these or success_rate are
\* reportOutcome calls, each adding 1 to total_actions, 1 or 0 to
\* successful_actions and setting last_used to the time of the call; and after
\* N >= 1 calls with k successes success_rate = k / N exactly.
C17_Counted(acc) ==
    /\ 0 <= acc.total_actions
    /\ IF acc.total_actions = 0
       THEN acc.successful_actions = 0 /\ acc.last_used = NoTime
       ELSE /\ SameRate(acc.success_rate, acc.successful_actions, acc.total_actions)
            /\ acc.last_used # NoTime /\ acc.last_used <= now
C17_OutcomeStep(old, new) ==
    \/ /\ new.total_actions = old.total_actions
       /\ new.successful_actions = old.successful_actions
       /\ new.success_rate = old.success_rate
       /\ new.last_used = old.last_used
    \/ /\ new.total_actions = old.total_actions + 1
       /\ new.successful_actions \in {old.successful_actions, old.successful_actions + 1}
       /\ SameRate(new.success_rate, new.successful_actions, new.total_actions)
       /\ new.last_used = now
C17_OutcomesCounted ==
    [][/\ \A i \in DOMAIN accounts : C17_Counted(accounts[i])
       /\ \A i \in DOMAIN accounts : C17_OutcomeStep(accounts[i], accounts'[i])
       /\ \A i \in DOMAIN accounts' \ DOMAIN accounts : C17_Counted(accounts'[i])]_vars

\* C17 witness: after two reportOutcome calls, one a success, the second made
\* after the clock moved
C17_Witness ==
    \E i \in DOMAIN accounts :
        /\ accounts[i].total_actions = 2
        /\ accounts[i].successful_actions = 1
        /\ accounts[i].success_rate = <<1, 2>>
        /\ accounts[i].last_used = now /\ now > StartHour * HourMs

\* C18: every account has 0 <= successful_actions <= total_actions, and an
\* account with total_actions = 0 has success_rate = 1.0.
C18_CountsInRange ==
    \A i \in DOMAIN accounts :
        /\ 0 <= accounts[i].successful_actions
        /\ accounts[i].successful_actions <= accounts[i].total_actions
        /\ accounts[i].total_actions = 0 =>
              accounts[i].success_rate[1] = accounts[i].success_rate[2]

\* C18 witness: an account without history beside one whose outcomes, two or
\* more, were all successes
C18_Witness ==
    \E i \in DOMAIN accounts, j \in DOMAIN accounts :
        /\ accounts[i].total_actions = 0
        /\ accounts[j].total_actions >= 2
        /\ accounts[j].successful_actions = accounts[j].total_actions

\* C19: the pool holds at most one account per phone (a second register of a
\* phone is rejected and leaves the pool unchanged).
C19_OneAccountPerPhone ==
    \A i \in DOMAIN accounts, j \in DOMAIN accounts :
        accounts[i].phone = accounts[j].phone => i = j

\* C20: mark_account_banned sets the status of the phone's account to BANNED and
\* adds one to its banned_count; a BANNED account stays BANNED, is never the
\* account get_best_account returns, keeps its place in the pool (which never
\* shrinks) and is listed by get_accounts_by_status('BANNED').
C20_Listed(accs, i) ==
    \E k \in DOMAIN get_accounts_by_status(accs, "BANNED") :
        get_accounts_by_status(accs, "BANNED")[k] = accs[i]
C20_BanStep(i) ==
    LET old == accounts[i]
        new == accounts'[i]
    IN /\ new.phone = old.phone
       /\ \/ new.banned_count = old.banned_count /\ new.status = old.status
          \/ /\ new.banned_count = old.banned_count + 1
             /\ new.status = "BANNED"
             /\ i = FirstWithPhone(accounts, old.phone)
       /\ new.status = "BANNED" =>
             /\ get_best_account(accounts', now') # i
             /\ C20_Listed(accounts', i)
C20_BannedIsTerminal ==
    [][/\ Len(accounts') >= Len(accounts)
       /\ \A i \in DOMAIN accounts : C20_BanStep(i)]_vars

\* C20 witness: an account banned earlier is still in the pool, BANNED, with an
\* outcome reported on it since, while get_best_account returns a LIVE account
\* registered after it
C20_Witness ==
    \E i \in DOMAIN accounts :
        /\ accounts[i].status = "BANNED" /\ accounts[i].banned_count = 1
        /\ accounts[i].total_actions > 0
        /\ get_best_account(accounts, now) > i
        /\ now > StartHour * HourMs

\* the account as it would be with no rate limit and no ban counted
Unpenalized(acc) == [acc EXCEPT !.rate_limit_count = 0, !.banned_count = 0]

\* C21: the score of an account is the score of the same account without
\* penalties (base score times cooldown penalty) times max(0, 1 - 0.1 *
\* rate_limit_count) times max(0, 1 - 0.2 * banned_count): it is never
\* negative, it is 0 once rate_limit_count >= 10 or banned_count >= 5, and one
\* ban, or two rate limits, scale it by 0.8.
C21_ScorePenalties ==
    \A i \in DOMAIN accounts :
        LET acc == accounts[i]
            clean == Unpenalized(acc)
            rl == acc.rate_limit_count
            bans == acc.banned_count
        IN /\ ScoreNum(acc, now) >= 0
           /\ (rl >= 10 \/ bans >= 5) => ScoreNum(acc, now) = 0
           /\ ScoreNum(clean, now) > 0
           /\ (rl < 10 /\ bans < 5) =>
                 50 * ScoreNum(acc, now) = (10 - rl) * (5 - bans) * ScoreNum(clean, now)
           /\ (rl = 2 /\ bans = 0) => 5 * ScoreNum(acc, now) = 4 * ScoreNum(clean, now)
           /\ (rl = 0 /\ bans = 1) => 5 * ScoreNum(acc, now) = 4 * ScoreNum(clean, now)
           /\ (rl = 2 /\ bans = 1) => 25 * ScoreNum(acc, now) = 16 * ScoreNum(clean, now)

\* C21 witness: an account banned once and rate limited twice, used within the
\* last hour, with a positive score
C21_Witness ==
    \E i \in DOMAIN accounts :
        /\ accounts[i].banned_count = 1 /\ accounts[i].rate_limit_count = 2
        /\ get_cooldown_penalty(accounts[i], now) = 5
        /\ ScoreNum(accounts[i], now) > 0

\* the place of a coroutine in its plan: allocation (or batch), slot, unit
PlaceBefore(x, y) ==
    \/ x.a < y.a
    \/ x.a = y.a /\ x.s < y.s
    \/ x.a = y.a /\ x.s = y.s /\ x.n < y.n
SamePlace(x, y) == x.a = y.a /\ x.s = y.s /\ x.n = y.n
\* start time of the slot (or batch) of the call the coroutine p is in
CallSlotStart(p) ==
    IF ex[p].pc = "add_call"
    THEN Task(p).distribution[ex[p].a].time_slots[ex[p].s].start_time
    ELSE Task(p).distribution[ex[p].a].start_time

\* C22: a task's units are called one at a time in plan order: the place of the
\* driving coroutine in the plan never moves back, a call that starts is at a
\* later place than the call before it, at most one call of a task is in flight,
\* and a call is in flight only at or after the start time of its slot or batch.
C22_InOrder ==
    [][/\ \A i \in Tasks : Cardinality({p \in Procs : ex[p].task = i /\ InCall(p)}) <= 1
       /\ \A p \in Procs : InCall(p) => now >= CallSlotStart(p)
       /\ \A p \in Procs :
             ex[p].task # 0 =>
                /\ ex'[p].task = ex[p].task
                /\ PlaceBefore(ex[p], ex'[p]) \/ SamePlace(ex[p], ex'[p])
                /\ (ex'[p].pc \in {"add_call", "scrape_call"} /\ ex'[p] # ex[p])
                      => PlaceBefore(ex[p], ex'[p]) \/ ~InCall(p)
                /\ (ex[p].pc \in {"add_pace", "scrape_pace"} /\ ex'[p] # ex[p]
                      /\ ex'[p].pc # "cancelled")
                      => PlaceBefore(ex[p], ex'[p])]_vars

\* C22 witness: a call of the second slot in flight, after the calls of the first
C22_Witness ==
    \E p \in Procs :
        /\ ex[p].pc = "add_call" /\ ex[p].s = 2 /\ ex[p].calls > 0
        /\ now >= CallSlotStart(p)
        /\ CallSlotStart(p) > Task(p).started_at

\* C23: the plan _calculate_distribution returns for n usable accounts and an
\* hourly budget has exactly n allocations, each with the hourly rate
\* floor(budget / n): for the user count and pool of every schedule step, under
\* every budget and zone, the recorded plan being one of these; and for 100
\* users, 2 accounts, budget 40 (2 allocations of 50 users at rate 20).
C23_RateOf(plan, n, budget) ==
    /\ Len(plan) = n
    /\ \A i \in 1..n : plan[i].actions_per_hour = budget \div n
C23_AllocationsAndRate ==
    [][Scheduled("ADD_MEMBERS") =>
          LET u == NewTask.total_actions
              n == Min(u, live_accounts(accounts))
              example == calculate_distribution(100, 2, 40, "UTC", now)
          IN /\ \A budget \in 0..MaxBudget, tz \in TimeZones :
                   distribution_error(u, n, budget, tz) = None =>
                      C23_RateOf(calculate_distribution(u, n, budget, tz, now), n, budget)
             /\ \E budget \in n..MaxBudget :
                   NewTask.distribution
                      = calculate_distribution(u, n, budget, NewTask.timezone, now)
             /\ C23_RateOf(example, 2, 40)
             /\ example[1].actions_per_hour = 20 /\ example[2].actions_per_hour = 20
             /\ example[1].users_count + example[2].users_count = 100]_vars

\* C23 witness: a recorded plan of two allocations at rate 2, which is
\* floor(5 / 2) or floor(4 / 2)
C23_Witness ==
    \E i \in AddTasks :
        /\ Len(scheduled_tasks[i].distribution) = 2
        /\ scheduled_tasks[i].distribution[1].actions_per_hour = 2
        /\ scheduled_tasks[i].distribution[2].actions_per_hour = 2

ScrapeTasks == {i \in Tasks : scheduled_tasks[i].type = "BULK_SCRAPE"}
RECURSIVE Concat(_)
Concat(seqs) == IF seqs = <<>> THEN <<>> ELSE Head(seqs) \o Concat(Tail(seqs))

\* C24: the batches of a bulk-scrape plan, concatenated in batch order, are the
\* source list; no batch is empty; and every batch but the last has
\* max(1, floor(len(sources) / accounts_per_hour)) sources, for the hourly
\* budget of the call.
C24_BatchSize(plan, size) ==
    /\ \A b \in DOMAIN plan :
          /\ plan[b].sources # <<>>
          /\ Len(plan[b].sources) <= size
          /\ b < Len(plan) => Len(plan[b].sources) = size
C24_Partition ==
    [][Scheduled("BULK_SCRAPE") =>
          LET sources == NewTask.items
              plan == NewTask.distribution
          IN /\ Concat([b \in DOMAIN plan |-> plan[b].sources]) = sources
             /\ \A b \in DOMAIN plan : plan[b].batch_index = b - 1
             /\ \A budget \in 1..MaxBudget, tz \in {"UTC", "Asia/Tokyo"} :
                   C24_BatchSize(calculate_scrape_distribution(sources, budget, tz, now),
                                 Max(1, Len(sources) \div budget))
             /\ \E budget \in 1..MaxBudget :
                   plan = calculate_scrape_distribution(sources, budget,
                                                        NewTask.timezone, now)]_vars

\* C24 witness: a recorded plan of three batches, two sources in the first two
\* and one in the last
C24_Witness ==
    \E i \in ScrapeTasks :
        LET plan == scheduled_tasks[i].distribution IN
        /\ Len(plan) = 3
        /\ Len(plan[1].sources) = 2 /\ Len(plan[2].sources) = 2
        /\ Len(plan[3].sources) = 1

\* C25: in a bulk-scrape plan the batch with index b starts b minutes after the
\* time the plan was made.
C25_BatchStartsAtIndexMinutes ==
    \A i \in ScrapeTasks :
        \A b \in DOMAIN scheduled_tasks[i].distribution :
            scheduled_tasks[i].distribution[b].start_time
               = scheduled_tasks[i].created_at
                   + scheduled_tasks[i].distribution[b].batch_index * MinuteMs

\* C26: a step that changes a rate_limit_count is mark_account_rate_limited on
\* the phone's account: that count grows by one, every other field of the
\* account (status, counters, success_rate, last_used) and every other account
\* stay as they were, and the pool keeps its length.
C26_RateLimitedStep(i) ==
    /\ accounts'[i] = [accounts[i] EXCEPT !.rate_limit_count = accounts[i].rate_limit_count + 1]
    /\ i = FirstWithPhone(accounts, accounts[i].phone)
    /\ Len(accounts') = Len(accounts)
    /\ \A j \in DOMAIN accounts : j # i => accounts'[j] = accounts[j]
C26_RateLimitFrame ==
    [][\A i \in DOMAIN accounts :
          accounts'[i].rate_limit_count # accounts[i].rate_limit_count
             => C26_RateLimitedStep(i)]_vars

\* C26 witness: a rate-limited account that is still LIVE and keeps the outcome
\* reported on it earlier, beside another account
C26_Witness ==
    \E i \in DOMAIN accounts :
        /\ accounts[i].rate_limit_count = 1 /\ accounts[i].status = "LIVE"
        /\ accounts[i].total_actions = 1 /\ accounts[i].last_used < now
        /\ Len(accounts) = 2

AllLive == accounts # <<>> /\ \A i \in DOMAIN accounts : accounts[i].status = "LIVE"
\* how many calls of the coroutine p were handed users[u]
TimesPassed(p, u) == Cardinality({k \in DOMAIN ex[p].passed : ex[p].passed[k] = u})
\* the coroutine p drove its task to COMPLETED
Completed(p) == Drove(p) /\ Task(p).status = "COMPLETED"
\* get_best_account gave the coroutine p an account each time it asked: a
\* BULK_SCRAPE task, which is scheduled without a pool, asks once per source
\* and calls iff it gets one
Served(p) == Task(p).type = "BULK_SCRAPE" => ex[p].calls = Len(Task(p).items)

\* C29: when an ADD_MEMBERS task is COMPLETED with a LIVE account available
\* throughout, every user of its list was passed to _add_single_member exactly
\* once.
C29_EveryUserPassedOnce ==
    \A p \in Procs :
        (Completed(p) /\ Task(p).type = "ADD_MEMBERS" /\ AllLive)
            => \A u \in 0..(Len(Task(p).items) - 1) : TimesPassed(p, u) = 1

\* C30: when a task is COMPLETED after a run in which every single-action call
\* returned and a LIVE account was available throughout, its progress is its
\* total_actions.
C30_AllSucceededProgressIsTotal ==
    \A p \in Procs :
        (Completed(p) /\ ex[p].ok_calls = ex[p].calls /\ AllLive /\ Served(p))
            => Task(p).progress = Task(p).total_actions

\* C33: the cooldown penalty of every account at every clock value is 1.0 when
\* the account was never used or was last used 3600 seconds ago or more, and
\* 0.5 when it was last used less than 3600 seconds ago, also when that is
\* less than 1800 seconds ago; it is never 0.3.
C33_CooldownTiers ==
    \A i \in DOMAIN accounts :
        LET penalty == get_cooldown_penalty(accounts[i], now)
            never == accounts[i].last_used = NoTime
            since == now - accounts[i].last_used
        IN /\ (never \/ since >= 3600 * SecondMs) => penalty = 10
           /\ (~never /\ since < 3600 * SecondMs) => penalty = 5
           /\ penalty # 3

\* C33 witness: an account used less than 1800 seconds ago beside one used an
\* hour ago or more
C33_Witness ==
    \E i, j \in DOMAIN accounts :
        /\ accounts[i].last_used # NoTime /\ now - accounts[i].last_used < 1800 * SecondMs
        /\ get_cooldown_penalty(accounts[i], now) = 5
        /\ accounts[j].last_used # NoTime /\ now - accounts[j].last_used >= 3600 * SecondMs
        /\ get_cooldown_penalty(accounts[j], now) = 10

\* no coroutine was cancelled (a cancelled coroutine stays cancelled)
NoCancellation == \A p \in Procs : ex[p].pc # "cancelled"

StepsWithoutAccount(p) ==
    /\ ex'[p] # ex[p]
    /\ ex'[p].task # 0
    /\ LiveAccounts(accounts) = {}
    /\ ex[p].account = 0

\* C35: a step of the executor made while no account is LIVE and none is held
\* starts no single-action call, counts none, leaves the task's progress as it
\* was, holds no account afterwards and never fails the task; when the step
\* ends the plan the task is COMPLETED.  A run that starts idle and finds no
\* LIVE account at any of its steps is a chain of such steps: it makes no
\* call, its progress stays 0 and it ends COMPLETED.
C35_NoAccountNoCall ==
    [][\A p \in Procs :
          StepsWithoutAccount(p) =>
              LET before == scheduled_tasks[ex'[p].task]
                  after == scheduled_tasks'[ex'[p].task]
              IN /\ ~ (ex'[p].pc \in {"add_call", "scrape_call"})
                 /\ ex'[p].calls = ex[p].calls
                 /\ ex'[p].account = 0
                 /\ after.progress = before.progress
                 /\ after.status \in {"RUNNING", "COMPLETED"}
                 /\ ex'[p].pc = "returned" => after.status = "COMPLETED"]_vars

\* C35 witness: an ADD_MEMBERS task with users to add, run to COMPLETED over a
\* pool whose accounts are all banned, with no call made and progress 0
C35_Witness ==
    \E p \in Procs :
        /\ Completed(p) /\ Task(p).type = "ADD_MEMBERS" /\ Task(p).total_actions > 0
        /\ accounts # <<>> /\ LiveAccounts(accounts) = {}
        /\ ex[p].calls = 0 /\ ex[p].account = 0 /\ Task(p).progress = 0

\* C36: whenever the pool has a LIVE account, schedule_add_members returns a
\* plan (raises nothing, so the call records a task) for every non-empty user
\* list, every positive hourly budget and every valid zone, also when the
\* budget is smaller than the number of accounts used.
C36_ScheduleSucceeds ==
    live_accounts(accounts) >= 1 =>
        \A n \in 1..MaxUsers, b \in 1..MaxBudget, tz \in TimeZones :
            ValidTimeZone(tz) =>
                distribution_error(n, Min(n, live_accounts(accounts)), b, tz) = None

\* the plan of the task of p has another action after the one p is at: a later
\* action_num of the slot, a later slot or allocation with a target, a later
\* source of the batch or a later batch with sources
HasNextAction(p) ==
    LET plan == Task(p).distribution IN
    IF Task(p).type = "ADD_MEMBERS"
    THEN \/ \E n \in (ex[p].n + 1)..(plan[ex[p].a].time_slots[ex[p].s].target_actions - 1) :
               n < Len(Task(p).items)
         \/ \E s \in (ex[p].s + 1)..Len(plan[ex[p].a].time_slots) :
               plan[ex[p].a].time_slots[s].target_actions > 0
         \/ \E a \in (ex[p].a + 1)..Len(plan) : \E s \in DOMAIN plan[a].time_slots :
               plan[a].time_slots[s].target_actions > 0
    ELSE \/ ex[p].n < Len(plan[ex[p].a].sources)
         \/ \E b \in (ex[p].a + 1)..Len(plan) : plan[b].sources # <<>>

\* C37: when a single-action call returns, the executor suspends for the
\* pacing delay if the plan has another action after it, and if it was the
\* final action of the run it does not suspend: the task is COMPLETED in the
\* same step.
C37_PacesOnlyBetweenActions ==
    [][\A p \in Procs :
          (InCall(p) /\ ex'[p].ok_calls = ex[p].ok_calls + 1) =>
              IF HasNextAction(p)
              THEN ex'[p].pc \in {"add_pace", "scrape_pace"}
              ELSE scheduled_tasks'[ex[p].task].status = "COMPLETED"]_vars

\* C31: every task that enters RUNNING later reaches COMPLETED or FAILED, when
\* the clock advances and every single-action call returns or raises; and a
\* COMPLETED task has its completion time recorded.
C31_RunningEnds ==
    /\ \A i \in 1..MaxTasks :
          (i \in Tasks /\ scheduled_tasks[i].status = "RUNNING")
              ~> (i \in Tasks /\ scheduled_tasks[i].status \in {"COMPLETED", "FAILED"})
    /\ [](\A i \in Tasks : scheduled_tasks[i].status = "COMPLETED"
                               => scheduled_tasks[i].completed_at # NoTime)

\* an exception of get_best_account escapes the per-unit boundary in this step
\* of the coroutine p
Escapes(p) == SelectRaises(p) \/ \E id \in AnyId : ExecuteRaise(p, id)

\* C32: a step in which an exception escapes the per-unit boundary leaves the
\* task FAILED with the error message recorded and out of running_tasks, and a
\* FAILED task record never changes again, so it never becomes COMPLETED.
C32_EscapedIsFailed ==
    [][/\ \A p \in Procs :
            Escapes(p) =>
                LET task == scheduled_tasks'[ex'[p].task] IN
                /\ task.status = "FAILED"
                /\ task.error = "RotatorError"
                /\ task.completed_at = NoTime
                /\ task.id \notin running_tasks'
                /\ ex'[p].pc = "returned"
       /\ \A i \in Tasks :
            scheduled_tasks[i].status = "FAILED" => scheduled_tasks'[i] = scheduled_tasks[i]]_vars

\* C32 witness: a task FAILED by an exception raised at the start of its second
\* allocation, after a call was made for the first: the error is recorded, the
\* id is out of running_tasks and the coroutine has returned
C32_Witness ==
    \E p \in Procs :
        /\ ex[p].pc = "returned" /\ ex[p].task # 0 /\ ex[p].calls > 0
        /\ Task(p).status = "FAILED" /\ Task(p).error = "RotatorError"
        /\ Task(p).id \notin running_tasks

\* what a step may do to the escrow transaction tx_id
C38_TransactionStep(tx_id) ==
    LET old == transactions[tx_id]
        new == transactions'[tx_id]
    IN /\ \/ new.status = old.status
          \/ old.status = "PENDING" /\ new.status = "CONFIRMED"
          \/ old.status = "CONFIRMED" /\ new.status = "COMPLETED"
       /\ new.status # old.status /\ new.status = "CONFIRMED"
             => new.buyer_confirmed /\ new.seller_confirmed
       /\ ~old.buyer_confirmed /\ new.buyer_confirmed
             => ConfirmTransaction(tx_id, old.buyer, "buyer")
       /\ ~old.seller_confirmed /\ new.seller_confirmed
             => ConfirmTransaction(tx_id, old.seller, "seller")
       /\ new.status # old.status /\ new.status = "COMPLETED"
             => CompleteTransaction(tx_id, old.buyer)
       /\ new.buyer = old.buyer /\ new.seller = old.seller /\ new.amount = old.amount

\* C38: the status of an escrow transaction only moves PENDING -> CONFIRMED ->
\* COMPLETED; it becomes CONFIRMED only with both confirmations, each set by a
\* confirm call of that party in its role; it becomes COMPLETED only from
\* CONFIRMED and by the complete call of its buyer; and every confirm or
\* complete call that returns an error (unknown id, wrong user or role, wrong
\* status) leaves the transactions as they were.
C38_EscrowTransitions ==
    /\ [][\A tx_id \in DOMAIN transactions : C38_TransactionStep(tx_id)]_vars
    /\ [](\A tx_id \in AnyTx, user_id \in Callers :
            /\ \A role \in Roles :
                  confirm_error(transactions, tx_id, user_id, role) # None
                      => confirm_transaction(transactions, tx_id, user_id, role, now)
                           = transactions
            /\ complete_error(transactions, tx_id, user_id) # None
                  => complete_transaction(transactions, tx_id, user_id, now)
                       = transactions)

\* C38 witness: a COMPLETED transaction between two parties, with both
\* confirmations and its completion time, beside a PENDING one that only its
\* seller has confirmed
C38_Witness ==
    \E i, j \in DOMAIN transactions :
        /\ transactions[i].status = "COMPLETED"
        /\ transactions[i].buyer # transactions[i].seller
        /\ transactions[i].buyer_confirmed /\ transactions[i].seller_confirmed
        /\ transactions[i].completed_at # NoTime
        /\ transactions[j].status = "PENDING"
        /\ transactions[j].seller_confirmed /\ ~transactions[j].buyer_confirmed

\* C39: every balance is >= 0 after any sequence of add_credits with amounts
\* >= 0 and deduct_credits priced by the cost table, and from every state a
\* deduct_credits call that returns insufficient_credits leaves the store
\* unchanged while one that succeeds takes exactly the cost.
C39_BalanceNeverNegative ==
    /\ \A u \in DOMAIN user_credits : user_credits[u] >= 0
    /\ \A user_id \in Callers, action_type \in ActionTypes :
          LET after == deduct_credits(user_credits, user_id, action_type, None) IN
          IF deduct_status(user_credits, user_id, action_type, None) = "insufficient_credits"
          THEN after = user_credits
          ELSE get_user_credits(after, user_id)
                 = get_user_credits(user_credits, user_id) - deduct_cost(action_type, None)

\* C39 witness: a user whose balance was spent down to 0, for whom every
\* deduction is refused, beside a user who can pay for a BULK_SCRAPE
C39_Witness ==
    \E u, v \in DOMAIN user_credits :
        /\ user_credits[u] = 0
        /\ \A action_type \in ActionTypes :
              deduct_status(user_credits, u, action_type, None) = "insufficient_credits"
        /\ user_credits[v] >= cost_matrix["BULK_SCRAPE"]
        /\ deduct_status(user_credits, v, "BULK_SCRAPE", None) = "success"

====
